---- MODULE Spec2Model ----
(***************************************************************************)
(* Vulnmine record linkage: MatchVendor.match (matchven.py),               *)
(* MatchSoft.match (matchsft.py) and the shared classifier wrapper         *)
(* MLClassify (ml.py); the pipeline driver (vulnmine.py), get, save and    *)
(* load of the stored tables, NvdCve.download_cve and NvdCpe.download_cpe   *)
(* (nvd.py); the criticality of MatchVulns.data_merge (vulns.py).          *)
(*                                                                         *)
(* A pandas DataFrame is a record [cols, rows]: cols is the set of column  *)
(* names, rows the sequence of rows, each row a function from cols to      *)
(* values.  A Python string on which the code works character by character *)
(* (lower, replace, split, len, in) is a sequence of one-character         *)
(* strings; identifiers the code only copies are TLA+ strings.             *)
(***************************************************************************)
EXTENDS Integers, Sequences, FiniteSets, TLC

VARIABLES
    type_data,      \* 'vendor' or 'software': the stage (MLClassify.__init__ argument)
    clf_loaded,     \* TRUE iff joblib.load(model) succeeded in MLClassify.__init__
    clf,            \* the classifier: the set of feature vectors it predicts 1 for
    label_file,     \* the labelled-example CSV as read by the run: [io_error, cols, rows]
    df_cpe,         \* caller's catalog table (NVD CPE)
    df_sccm_ar,     \* caller's inventory table (SCCM Add/Remove programs)
    df_ven_pub,     \* caller's vendor-publisher table handed to MatchSoft.match
    pc,             \* position of the running match(): next step, "done" or "raised"
    err,            \* [where, what] of the exception that ended the run, or none
    df_prep,        \* local: the two frames returned by the _match_prepare step
    df_match,       \* local: result of _cartesian_product
    df_match_upd,   \* local: result of _update_with_labelled_data (candidates)
    df_match_lbl,   \* local: labelled data returned by _update_with_labelled_data
    df_match_test2, \* local: classified slice returned by ml_classify
    df_match_labelled, \* local: labelled slice returned by ml_classify
    predict_arg,    \* the feature matrices handed to clf.predict in this run, in call order
    table,          \* self.df_match_vendor_publisher / self.df_match_cpe_sft
    runs,           \* number of match() calls started on these inputs
    baseline,       \* table stored by the first completed run (the recorded baseline)
    fn_in,          \* post-processing functions on their own: the two input frames
    fn_out,         \* post-processing functions on their own: the frame returned
    fn_pc,          \* "idle", "call_<function>" or "ret_<function>"
    args_action,    \* vulnmine.main: args.action, 'sched' or a list of actions
    proc,           \* vulnmine.main: where the process is, "returned" or "uncaught"
    todo,           \* vulnmine.main: the steps still to call, in order
    job,            \* the job of the schedule: "none", "scheduled" or "cancelled"
    raised_in,      \* the step that raised the last exception, or "none"
    days,           \* number of scheduled runs started
    objs,           \* the frame objects: the stored table of each matcher, the caller's
    got,            \* the object the caller's variable is bound to, or "none"
    pck,            \* the pickle file of each stage, or NoFile
    st_op,          \* the last call on a matcher or change by the caller: [op, stage]
    nvd_pc,         \* download_cve: "loop", "done" (returned) or "raised"
    nvd_index,      \* download_cve: index of the for loop, the year is my_yr - index
    meta_files,     \* the stored meta file of each year: its text, or NoText
    cve_files,      \* the stored CVE file of each year: its contents, or NoText
    http_log,       \* the requests made by this download_cve, with their responses
    nvd_runs,       \* number of download_cve calls started
    cpe_pc,         \* download_cpe: "called", "returned" or "raised"
    my_cpe,         \* the local CPE dictionary file: [text, age], age in days
    cpe_log,        \* the responses to the requests made by this download_cpe
    cpe_calls       \* number of download_cpe calls started

vars == <<type_data, clf_loaded, clf, label_file, df_cpe, df_sccm_ar, df_ven_pub,
          pc, err, df_prep, df_match, df_match_upd, df_match_lbl, df_match_test2,
          df_match_labelled, predict_arg, table, runs, baseline,
          fn_in, fn_out, fn_pc,
          args_action, proc, todo, job, raised_in, days,
          objs, got, pck, st_op,
          nvd_pc, nvd_index, meta_files, cve_files, http_log, nvd_runs,
          cpe_pc, my_cpe, cpe_log, cpe_calls>>

\* the state of the pipeline driver
driver == <<args_action, proc, todo, job, raised_in, days>>
\* the state of the stored tables and of their files
store == <<objs, got, pck, st_op>>
\* the state of download_cve and of the NVD directory
nvd == <<nvd_pc, nvd_index, meta_files, cve_files, http_log, nvd_runs>>
\* the state of download_cpe and of the CPE dictionary file
cpe == <<cpe_pc, my_cpe, cpe_log, cpe_calls>>
\* the state outside the matchers
others == <<driver, store, nvd, cpe>>

-----------------------------------------------------------------------------
(* Bounds of the model *)

\* longest hand-written part of a labelled-example file, in rows
MaxLbl == 2
\* longest frame handed to a post-processing function on its own, in rows
MaxFnRows == 2
\* CVE rows of the vulnerability data given to _categorize_cvss_data
MaxCves == 2
\* most names in a catalog or an inventory handed to a vendor-stage function
MaxFnNames == 2
\* most parts of a name handed to the name normalization on its own
MaxNameParts == 3
\* most actions on the command line of the driver
MaxActions == 2
\* most scheduled runs of the driver
MaxDays == 2
\* gbls.num_nvd_files: the number of years download_cve handles
num_nvd_files == 2
\* most download_cve calls on one NVD directory
MaxNvdRuns == 2
\* most download_cpe calls on one NVD directory
MaxCpeCalls == 2
\* most days a CPE dictionary file is older than gbls.cpe_max_age
MaxOverAge == 2

-----------------------------------------------------------------------------
(* Python strings *)

\* pandas/numpy null in a numeric column
NaN == -1
\* null in a column of character-sequence strings
NaNStr == <<"NaN">>
\* null in a column of opaque identifiers
NaNId == "NaN"

Range(s) == {s[i] : i \in DOMAIN s}

\* code points order of the characters used
Alphabet == <<" ", "!", "(", ")", "+", ",", "-", ".", "0", "1", "2", "3", "4",
              "5", "6", "7", "8", "9", "A", "B", "C", "D", "E", "F", "G", "H",
              "I", "J", "K", "L", "M", "N", "O", "P", "Q", "R", "S", "T", "U",
              "V", "W", "X", "Y", "Z", "_", "a", "b", "c", "d", "e", "f", "g",
              "h", "i", "j", "k", "l", "m", "n", "o", "p", "q", "r", "s", "t",
              "u", "v", "w", "x", "y", "z">>

ord(c) == CHOOSE i \in DOMAIN Alphabet : Alphabet[i] = c

\* str.lower() on one character
lower_char(c) ==
    IF ord(c) >= ord("A") /\ ord(c) <= ord("Z")
    THEN Alphabet[ord(c) - ord("A") + ord("a")]
    ELSE c

\* Series.str.lower(): nulls stay null
str_lower(s) == IF s = NaNStr THEN NaNStr ELSE [i \in DOMAIN s |-> lower_char(s[i])]

\* Series.str.replace(pat, repl) for a character class pat and a one-character repl
str_replace(s, pat, repl) ==
    IF s = NaNStr THEN NaNStr
    ELSE [i \in DOMAIN s |-> IF s[i] \in pat THEN repl ELSE s[i]]

\* str.split(): split on runs of white space
RECURSIVE str_split(_)
str_split(s) ==
    IF s = <<>> THEN <<>>
    ELSE IF Head(s) = " " THEN str_split(Tail(s))
    ELSE LET stop == IF \E i \in DOMAIN s : s[i] = " "
                     THEN (CHOOSE i \in DOMAIN s :
                             s[i] = " " /\ \A j \in 1..(i - 1) : s[j] # " ")
                     ELSE Len(s) + 1
         IN <<SubSeq(s, 1, stop - 1)>> \o str_split(SubSeq(s, stop, Len(s)))

\* s.startswith(sub)
startswith(s, sub) == Len(sub) <= Len(s) /\ SubSeq(s, 1, Len(sub)) = sub

\* sub in s
str_contains(s, sub) ==
    \E i \in 0..(Len(s) - Len(sub)) : SubSeq(s, i + 1, i + Len(sub)) = sub

\* str.replace(old, new): every non-overlapping occurrence, left to right
RECURSIVE str_replace_sub(_, _, _)
str_replace_sub(s, old, new) ==
    IF s = <<>> THEN <<>>
    ELSE IF old # <<>> /\ startswith(s, old)
         THEN new \o str_replace_sub(SubSeq(s, Len(old) + 1, Len(s)), old, new)
         ELSE <<Head(s)>> \o str_replace_sub(Tail(s), old, new)

\* s1 < s2 in Python's string order
RECURSIVE str_less(_, _)
str_less(s1, s2) ==
    IF s2 = <<>> THEN FALSE
    ELSE IF s1 = <<>> THEN TRUE
    ELSE IF Head(s1) # Head(s2) THEN ord(Head(s1)) < ord(Head(s2))
    ELSE str_less(Tail(s1), Tail(s2))

\* tuple order on key tuples of strings
RECURSIVE tuple_less(_, _)
tuple_less(t1, t2) ==
    IF t2 = <<>> THEN FALSE
    ELSE IF t1 = <<>> THEN TRUE
    ELSE IF Head(t1) # Head(t2) THEN str_less(Head(t1), Head(t2))
    ELSE tuple_less(Tail(t1), Tail(t2))

-----------------------------------------------------------------------------
(* pandas DataFrames *)

DataFrame(cols, rows) == [cols |-> cols, rows |-> rows]

\* pd.DataFrame([]) : no rows, no columns
NoFrame == DataFrame({}, <<>>)

\* DataFrame.empty
empty(df) == df.rows = <<>> \/ df.cols = {}

\* columns holding character-sequence strings
StrCols == {"Publisher0", "publisher0", "vendor_X", "DisplayName0", "Version0",
            "release_X", "title_X", "pub0_cln", "ven_cln", "cpe23-item-name"}
\* columns holding opaque identifiers
IdCols == {"software_X", "@name", "t_cve_name",
           "t_cve_name_x", "t_cve_name_y"}

null_of(col) == IF col \in StrCols THEN NaNStr
                ELSE IF col \in IdCols THEN NaNId ELSE NaN

isnull(row, col) == row[col] = null_of(col)

\* df[cols] : the frame restricted to cols (KeyError is the caller's guard)
select_cols(df, cols) ==
    DataFrame(cols, [i \in DOMAIN df.rows |-> [c \in cols |-> df.rows[i][c]]])

\* the tuple of a row's values in the columns keys (a sequence of names)
key_of(row, keys) == [i \in DOMAIN keys |-> row[keys[i]]]

\* pd.merge(left, right, how='left', on=keys): each left row once per matching
\* right row, in right order; once with null right columns when none matches
RECURSIVE merge_left_rows(_, _, _, _)
merge_left_rows(lrows, rrows, keys, rcols) ==
    IF lrows = <<>> THEN <<>>
    ELSE LET l == Head(lrows)
             hits == SelectSeq(rrows, LAMBDA r : key_of(r, keys) = key_of(l, keys))
             joined == IF hits = <<>>
                       THEN <<l @@ [c \in rcols |-> null_of(c)]>>
                       ELSE [i \in DOMAIN hits |-> l @@ [c \in rcols |-> hits[i][c]]]
         IN joined \o merge_left_rows(Tail(lrows), rrows, keys, rcols)

merge_left(left, right, keys) ==
    LET rcols == right.cols \ Range(keys)
    IN DataFrame(left.cols \cup rcols,
                 merge_left_rows(left.rows, right.rows, keys, rcols))

\* DataFrame.dropna(how='any', subset=cols)
dropna(df, cols) ==
    DataFrame(df.cols, SelectSeq(df.rows, LAMBDA r : \A c \in cols : ~isnull(r, c)))

\* pd.concat([a, b], ignore_index=True): union of the columns, nulls filled in
concat(a, b) ==
    LET cols == a.cols \cup b.cols
        widen(r) == [c \in cols |-> IF c \in DOMAIN r THEN r[c] ELSE null_of(c)]
    IN DataFrame(cols, [i \in DOMAIN a.rows |-> widen(a.rows[i])]
                       \o [i \in DOMAIN b.rows |-> widen(b.rows[i])])

\* DataFrame.drop_duplicates(subset=keys): the first row of each key is kept
drop_duplicates(df, keys) ==
    DataFrame(df.cols,
        LET n == Len(df.rows)
            first(i) == \A j \in 1..(i - 1) :
                            key_of(df.rows[j], keys) # key_of(df.rows[i], keys)
            RECURSIVE pick(_)
            pick(i) == IF i > n THEN <<>>
                       ELSE (IF first(i) THEN <<df.rows[i]>> ELSE <<>>) \o pick(i + 1)
        IN pick(1))

\* Series.unique(): distinct values in order of first appearance
RECURSIVE unique(_)
unique(s) ==
    IF s = <<>> THEN <<>>
    ELSE <<Head(s)>> \o unique(SelectSeq(Tail(s), LAMBDA v : v # Head(s)))

\* the column col of df as a sequence
column(df, col) == [i \in DOMAIN df.rows |-> df.rows[i][col]]

\* sorted(keys): ascending sequence of a finite set of key tuples
RECURSIVE sorted_tuples(_)
sorted_tuples(S) ==
    IF S = {} THEN <<>>
    ELSE LET m == CHOOSE t \in S : \A u \in S \ {t} : tuple_less(t, u)
         IN <<m>> \o sorted_tuples(S \ {m})

-----------------------------------------------------------------------------
(* String literals of the code and of the modelled data *)

s_dash == <<"-">>
s_microsoft == <<"m", "i", "c", "r", "o", "s", "o", "f", "t">>
s_cisco == <<"c", "i", "s", "c", "o">>
s_webex == <<"w", "e", "b", "e", "x">>
s_oracle == <<"o", "r", "a", "c", "l", "e">>
s_sun == <<"s", "u", "n">>
s_adobe == <<"a", "d", "o", "b", "e">>
s_11_0 == <<"1", "1", ".", "0">>
S_Adobe == <<"A", "d", "o", "b", "e">>
S_Oracle == <<"O", "r", "a", "c", "l", "e">>
s_oracle_corporation == <<"o", "r", "a", "c", "l", "e", "_",
                          "c", "o", "r", "p", "o", "r", "a", "t", "i", "o", "n">>
S_Oracle_Corporation == <<"O", "r", "a", "c", "l", "e", " ", "C", "o", "r", "p", "o", "r", "a", "t", "i", "o", "n">>
s_adobe_systems == <<"a", "d", "o", "b", "e", "_", "s", "y", "s", "t", "e", "m", "s">>
s_inc == <<"i", "n", "c">>
S_Adobe_Reader == <<"A", "d", "o", "b", "e", " ", "R", "e", "a", "d", "e", "r">>
S_Adobe_Acrobat_Reader == <<"A", "d", "o", "b", "e", " ", "A", "c", "r", "o", "b", "a", "t", " ", "R", "e", "a", "d", "e", "r">>
s_2_0 == <<"2", ".", "0">>
s_15_0 == <<"1", "5", ".", "0">>
s_11_0_1 == <<"1", "1", ".", "0", ".", "1">>
s_8_0_250 == <<"8", ".", "0", ".", "2", "5", "0">>
s_1_8_0 == <<"1", ".", "8", ".", "0">>
S_Microsoft_Office == <<"M", "i", "c", "r", "o", "s", "o", "f", "t", " ", "O", "f", "f", "i", "c", "e">>
S_Cisco_WebEx_Meetings == <<"C", "i", "s", "c", "o", " ", "W", "e", "b", "E", "x", " ", "M", "e", "e", "t", "i", "n", "g", "s">>
S_Oracle_JRE == <<"O", "r", "a", "c", "l", "e", " ", "J", "R", "E", " ", "1", ".", "8", ".", "0", " ", "U", "p", "d", "a", "t", "e", " ", "2", "5">>
S_Java_8_Update_25 == <<"J", "a", "v", "a", " ", "8", " ", "U", "p", "d", "a", "t", "e", " ", "2", "5">>
S_Oracle_Database == <<"O", "r", "a", "c", "l", "e", " ", "D", "a", "t", "a", "b", "a", "s", "e">>

-----------------------------------------------------------------------------
(* fuzzywuzzy: the statistics of the library on the strings that occur,     *)
(* <<s1, s2, ratio, partial_ratio, token_set_ratio, partial_token_set_ratio, *)
(*   partial_token_sort_ratio, token_sort_ratio, UWRatio>>                   *)

FzTable == {
    <<<<" ", " ", "a", "d", "o", "b", "e">>, <<" ", " ", "a", "d", "o", "b", "e">>, 100, 100, 100, 100, 100, 100, 100>>,
    <<<<" ", " ", "a", "d", "o", "b", "e">>, <<" ", " ", "o", "r", "a", "c", "l", "e", " ", "c", "o", "r", "p", "o", "r", "a", "t", "i", "o", "n">>, 30, 43, 26, 40, 40, 26, 36>>,
    <<<<" ", " ", "o", "r", "a", "c", "l", "e">>, <<" ", " ", "o", "r", "a", "c", "l", "e", " ", "c", "o", "r", "p", "o", "r", "a", "t", "i", "o", "n">>, 57, 100, 100, 100, 100, 50, 90>>,
    <<<<" ", " ", "o", "r", "a", "c", "l", "e">>, <<" ", " ", "a", "d", "o", "b", "e", " ", "s", "y", "s", "t", "e", "m", "s">>, 35, 50, 21, 33, 33, 21, 30>>,
    <<<<" ", " ", "a", "d", "o", "b", "e">>, <<" ", " ", "a", "d", "o", "b", "e", " ", "s", "y", "s", "t", "e", "m", "s">>, 64, 100, 100, 100, 100, 56, 90>>,
    <<<<" ", " ", "p", "v">>, <<" ", " ", "a", "d", "o", "b", "e">>, 36, 50, 0, 0, 0, 0, 0>>,
    <<<<" ", " ", "p", "v">>, <<" ", " ", "o", "r", "a", "c", "l", "e", " ", "c", "o", "r", "p", "o", "r", "a", "t", "i", "o", "n">>, 25, 50, 10, 50, 50, 10, 30>>,
    <<<<" ", " ", "p", "v">>, <<" ", " ", "p", "p">>, 75, 75, 50, 50, 50, 50, 50>>,
    <<<<" ", " ", "r", "e", "a", "d", "e", "r">>, <<" ", " ", "r", "e", "a", "d", "e", "r">>, 100, 100, 100, 100, 100, 100, 100>>,
    <<<<" ", " ", "a", "c", "r", "o", "b", "a", "t", " ", "r", "e", "a", "d", "e", "r">>, <<" ", " ", "r", "e", "a", "d", "e", "r">>, 67, 88, 100, 100, 100, 60, 90>>,
    <<<<" ", " ", "d", "a", "t", "a", "b", "a", "s", "e">>, <<" ", " ", "d", "a", "t", "a", "b", "a", "s", "e">>, 100, 100, 100, 100, 100, 100, 100>>,
    <<<<" ", " ", "d", "a", "t", "a", "b", "a", "s", "e">>, <<"j", "a", "v", "a", " ", "8", " ", "u", "p", "d", "a", "t", "e", " ", "2", "5">>, 46, 60, 33, 67, 67, 33, 57>>,
    <<<<" ", " ", "j", "r", "e", " ", "1", ".", "8", ".", "0", " ", "u", "p", "d", "a", "t", "e", " ", "2", "5">>, <<" ", " ", "d", "a", "t", "a", "b", "a", "s", "e">>, 39, 50, 30, 67, 67, 30, 57>>,
    <<<<" ", " ", "j", "r", "e", " ", "1", ".", "8", ".", "0", " ", "u", "p", "d", "a", "t", "e", " ", "2", "5">>, <<"j", "a", "v", "a", " ", "8", " ", "u", "p", "d", "a", "t", "e", " ", "2", "5">>, 65, 75, 81, 100, 84, 74, 77>>,
    <<<<" ", " ", "o", "f", "f", "i", "c", "e">>, <<" ", " ", "o", "f", "f", "i", "c", "e">>, 100, 100, 100, 100, 100, 100, 100>>,
    <<<<" ", " ", "w", "e", "b", "e", "x", " ", "m", "e", "e", "t", "i", "n", "g", "s">>, <<" ", " ", "w", "e", "b", "e", "x", " ", "m", "e", "e", "t", "i", "n", "g", "s">>, 100, 100, 100, 100, 100, 100, 100>>,
    <<<<"1", "1", ".", "0">>, <<"1", "1", ".", "0", ".", "1">>, 80, 100, 100, 100, 75, 80, 90>>,
    <<<<"8", ".", "0", ".", "2", "5", "0">>, <<"8", ".", "0", ".", "2", "5", "0">>, 100, 100, 100, 100, 100, 100, 100>>,
    <<<<"1", ".", "8", ".", "0">>, <<"8", ".", "0", ".", "2", "5", "0">>, 50, 60, 75, 100, 60, 67, 71>>,
    <<<<"1", "5", ".", "0">>, <<"1", "5", ".", "0">>, 100, 100, 100, 100, 100, 100, 100>>,
    <<<<"-">>, <<"2", ".", "0">>, 0, 0, 0, 0, 0, 0, 0>>,
    <<<<"-">>, <<"8", ".", "0", ".", "2", "5", "0">>, 0, 0, 0, 0, 0, 0, 0>>,
    <<<<"8", ".", "0", ".", "2", "5", "0">>, <<"-">>, 0, 0, 0, 0, 0, 0, 0>>,
    <<<<"1", ".", "8", ".", "0">>, <<"-">>, 0, 0, 0, 0, 0, 0, 0>>,
    <<<<"1", "1", ".", "0">>, <<"1", "1", ".", "0">>, 100, 100, 100, 100, 100, 100, 100>>,
    <<<<"1", "1", ".", "0">>, <<"-">>, 0, 0, 0, 0, 0, 0, 0>>,
    <<<<"-">>, <<"1", "1", ".", "0">>, 0, 0, 0, 0, 0, 0, 0>>,
    <<<<"-">>, <<"-">>, 100, 100, 0, 0, 0, 0, 0>>
    }

fz_entry(s1, s2) == CHOOSE e \in FzTable : e[1] = s1 /\ e[2] = s2

fz_ratio(s1, s2) == fz_entry(s1, s2)[3]
fz_partial_ratio(s1, s2) == fz_entry(s1, s2)[4]
fz_token_set_ratio(s1, s2) == fz_entry(s1, s2)[5]
fz_partial_token_set_ratio(s1, s2) == fz_entry(s1, s2)[6]
fz_partial_token_sort_ratio(s1, s2) == fz_entry(s1, s2)[7]
fz_token_sort_ratio(s1, s2) == fz_entry(s1, s2)[8]
fz_UWRatio(s1, s2) == fz_entry(s1, s2)[9]

-----------------------------------------------------------------------------
(* gbls.py: fields for the ML classification *)

vendor_key_list == <<"publisher0", "vendor_X">>
vendor_feature_list == <<"fz_ptl_ratio", "fz_ptl_tok_sort_ratio", "fz_ratio",
                         "fz_tok_set_ratio", "fz_uwratio", "ven_len", "pu0_len">>
vendor_token_list == <<"pub0_cln", "ven_cln">>
vendor_attr_list == vendor_key_list \o vendor_feature_list \o vendor_token_list

sft_key_list == <<"vendor_X", "software_X", "title_X", "DisplayName0",
                  "release_X", "Version0">>
sft_feature_list == <<"fz_ratio", "fz_ptl_ratio", "fz_tok_set_ratio",
                      "fz_ptl_tok_sort_ratio", "fz_uwratio", "fz_rel_ratio",
                      "fz_rel_ptl_ratio", "titlX_len", "DsplyNm0_len">>
sft_attr_list == sft_key_list \o sft_feature_list \o <<"t_cve_name">>

-----------------------------------------------------------------------------
(* ml.py: class MLClassify *)

\* MLClassify.__init__: the field lists selected by type_data
key_list(t) == IF t = "vendor" THEN vendor_key_list ELSE sft_key_list
feature_list(t) == IF t = "vendor" THEN vendor_feature_list ELSE sft_feature_list
attr_list(t) == IF t = "vendor" THEN vendor_attr_list ELSE sft_attr_list

\* MLClassify.upd_using_labelled_data
upd_using_labelled_data(t, p_df_match, p_df_match_lbl) ==
    IF empty(p_df_match_lbl) THEN p_df_match
    ELSE IF empty(p_df_match) THEN p_df_match
    ELSE LET df_match_lbl1 == select_cols(p_df_match_lbl, Range(key_list(t)) \cup {"match"})
             df_match_upd0 == merge_left(p_df_match, df_match_lbl1, key_list(t))
         IN dropna(df_match_upd0, Range(attr_list(t)))

\* a slice that forgets the test on the label: every row goes to the classifier
match_any(df) == df

\* the slice of ml_classify that is not yet classified, and the labelled one
match_isnull(df) == DataFrame(df.cols, SelectSeq(df.rows, LAMBDA r : r.match = NaN))
match_notnull(df) == DataFrame(df.cols, SelectSeq(df.rows, LAMBDA r : r.match # NaN))

\* a matrix whose columns are the features in the reverse of the trained order
feature_matrix_reversed(t, df) ==
    [i \in DOMAIN df.rows |->
        [j \in DOMAIN feature_list(t) |->
            df.rows[i][feature_list(t)[Len(feature_list(t)) + 1 - j]]]]

\* np.asarray(df_match_test[['match'] + feature_list])[:, 1:]
feature_matrix(t, df) ==
    [i \in DOMAIN df.rows |-> [j \in DOMAIN feature_list(t) |-> df.rows[i][feature_list(t)[j]]]]

\* self.__clf.predict(Xt)
predict(model, Xt) == [i \in DOMAIN Xt |-> IF Xt[i] \in model THEN 1 ELSE 0]

\* the exception ml_classify ends with, "none" if it returns
ml_classify_raises(loaded, p_df_match_upd) ==
    IF empty(p_df_match_upd) THEN "none"
    ELSE IF "match" \notin p_df_match_upd.cols THEN "KeyError"
    ELSE IF empty(match_isnull(p_df_match_upd)) THEN "none"
    ELSE IF ~loaded THEN "AttributeError"
    ELSE "none"

\* the matrices ml_classify hands to predict: none, or one
ml_classify_calls(t, p_df_match_upd) ==
    IF empty(p_df_match_upd) \/ empty(match_isnull(p_df_match_upd)) THEN <<>>
    ELSE <<feature_matrix(t, match_isnull(p_df_match_upd))>>

\* MLClassify.ml_classify: <<df_match_test2, df_match_labelled>>
ml_classify(t, model, p_df_match_upd) ==
    IF empty(p_df_match_upd) THEN <<p_df_match_upd, p_df_match_upd>>
    ELSE LET df_match_test == match_isnull(p_df_match_upd)
             labelled == match_notnull(p_df_match_upd)
         IN IF empty(df_match_test) THEN <<df_match_test, labelled>>
            ELSE LET s_match_test == predict(model, feature_matrix(t, df_match_test))
                 IN <<DataFrame(df_match_test.cols,
                                [i \in DOMAIN df_match_test.rows |->
                                    [df_match_test.rows[i] EXCEPT !.match = s_match_test[i]]]),
                      labelled>>

\* MLClassify.post_process_matched_data
post_process_matched_data(t, p_df_match_test2, p_df_match_lbl) ==
    IF empty(p_df_match_lbl) THEN p_df_match_test2
    ELSE IF empty(p_df_match_test2) THEN p_df_match_lbl
    ELSE LET df_match_consol1 == concat(match_notnull(p_df_match_test2), p_df_match_lbl)
             df_match_consol == drop_duplicates(df_match_consol1, key_list(t))
         IN DataFrame(df_match_consol.cols,
                      SelectSeq(df_match_consol.rows, LAMBDA r : r.match = 1))

-----------------------------------------------------------------------------
(* matchven.py: class MatchVendor *)

\* MatchVendor.__init__: the stored table before any match
ven_init_table == DataFrame({"Match", "publisher0", "vendor_X"}, <<>>)

\* the stop words read by MatchVendor.__init__ (self.__lst_stop_wds)
lst_stop_wds == {<<"i", "n", "c">>, <<"l", "t", "d">>}

\* rows needed by DataFrame.sample(10) in _match_prepare
PrepareSample == 10
\* rows needed by DataFrame.sample(20) in _post_process_matched_data
PostSample == 20

\* a _remove that suppresses only the first token to suppress, as
\* list.remove does
RECURSIVE _remove_first_loop(_, _, _)
_remove_first_loop(result, x, removed) ==
    IF x = <<>> THEN result
    ELSE IF removed \/ (Head(x) \notin lst_stop_wds /\ Len(Head(x)) > 1)
         THEN _remove_first_loop(result \o <<" ">> \o Head(x), Tail(x), removed)
         ELSE _remove_first_loop(result, Tail(x), TRUE)

_remove_first_only(x) == _remove_first_loop(<<" ">>, x, FALSE)

\* _remove: the clean name built from the tokens x
RECURSIVE _remove_loop(_, _)
_remove_loop(result, x) ==
    IF x = <<>> THEN result
    ELSE IF Head(x) \notin lst_stop_wds /\ Len(Head(x)) > 1
         THEN _remove_loop(result \o <<" ">> \o Head(x), Tail(x))
         ELSE _remove_loop(result, Tail(x))

_remove(x) == _remove_loop(<<" ">>, x)

\* Series.dropna().str.replace(' ', '_').str.lower().unique()
normalized_names(df, col) ==
    LET named == SelectSeq(column(df, col), LAMBDA v : v # NaNStr)
    IN unique([i \in DOMAIN named |-> str_lower(str_replace(named[i], {" "}, "_"))])

\* _match_prepare: <<df_arPub, df_cpeVen>>
ven_match_prepare(p_df_cpe, p_df_sccm_ar) ==
    LET pubs == normalized_names(p_df_sccm_ar, "Publisher0")
        vens == normalized_names(p_df_cpe, "vendor_X")
        pub_toks(s) == str_split(str_replace(s, {"_", ".", ",", "(", ")", "+", "!"}, " "))
        ven_toks(s) == str_split(str_replace(s, {"-", "_"}, " "))
    IN <<DataFrame({"publisher0", "pub0_toks", "pub0_cln"},
                   [i \in DOMAIN pubs |-> [publisher0 |-> pubs[i],
                                           pub0_toks |-> pub_toks(pubs[i]),
                                           pub0_cln |-> _remove(pub_toks(pubs[i]))]]),
         DataFrame({"vendor_X", "vend_toks", "ven_cln"},
                   [i \in DOMAIN vens |-> [vendor_X |-> vens[i],
                                           vend_toks |-> ven_toks(vens[i]),
                                           ven_cln |-> _remove(ven_toks(vens[i]))]])>>

\* the exception _match_prepare ends with: sample(10) needs 10 rows
ven_match_prepare_raises(p_df_cpe, p_df_sccm_ar) ==
    IF "Publisher0" \notin p_df_sccm_ar.cols \/ "vendor_X" \notin p_df_cpe.cols
    THEN "KeyError"
    ELSE LET prepared == ven_match_prepare(p_df_cpe, p_df_sccm_ar)
         IN IF Len(prepared[2].rows) < PrepareSample \/ Len(prepared[1].rows) < PrepareSample
            THEN "ValueError"
            ELSE "none"

\* concatenation of a sequence of sequences
RECURSIVE flatten(_)
flatten(ss) == IF ss = <<>> THEN <<>> ELSE Head(ss) \o flatten(Tail(ss))

\* a _cartesian_product whose length rule is `>=`: it also skips the pairs
\* of names of equal length
ven_cartesian_product_shorter(p_df_arPub, p_df_cpeVen) ==
    LET keep(v, p) == /\ ~(Len(v.ven_cln) >= Len(p.pub0_cln))
                      /\ ~(fz_partial_token_set_ratio(v.ven_cln, p.pub0_cln) < 100)
        pair(v, p) == [publisher0 |-> p.publisher0,
                       pub0_cln |-> p.pub0_cln,
                       vendor_X |-> v.vendor_X,
                       ven_cln |-> v.ven_cln,
                       fz_ratio |-> fz_ratio(v.ven_cln, p.pub0_cln),
                       fz_ptl_ratio |-> fz_partial_ratio(v.ven_cln, p.pub0_cln),
                       fz_tok_set_ratio |-> fz_token_set_ratio(v.ven_cln, p.pub0_cln),
                       fz_ptl_tok_sort_ratio |->
                           fz_partial_token_sort_ratio(v.ven_cln, p.pub0_cln),
                       fz_uwratio |-> fz_UWRatio(v.ven_cln, p.pub0_cln)]
        inner(v) == IF Len(v.ven_cln) < 2 THEN <<>>
                    ELSE LET kept == SelectSeq(p_df_arPub.rows, LAMBDA p : keep(v, p))
                         IN [i \in DOMAIN kept |-> pair(v, kept[i])]
        lst_dict == flatten([i \in DOMAIN p_df_cpeVen.rows |-> inner(p_df_cpeVen.rows[i])])
    IN IF lst_dict = <<>> THEN NoFrame
       ELSE DataFrame({"publisher0", "pub0_cln", "vendor_X", "ven_cln", "fz_ratio",
                       "fz_ptl_ratio", "fz_tok_set_ratio", "fz_ptl_tok_sort_ratio",
                       "fz_uwratio"}, lst_dict)

\* _cartesian_product of MatchVendor.match
ven_cartesian_product(p_df_arPub, p_df_cpeVen) ==
    LET keep(v, p) == /\ ~(Len(v.ven_cln) > Len(p.pub0_cln))
                      /\ ~(fz_partial_token_set_ratio(v.ven_cln, p.pub0_cln) < 100)
        pair(v, p) == [publisher0 |-> p.publisher0,
                       pub0_cln |-> p.pub0_cln,
                       vendor_X |-> v.vendor_X,
                       ven_cln |-> v.ven_cln,
                       fz_ratio |-> fz_ratio(v.ven_cln, p.pub0_cln),
                       fz_ptl_ratio |-> fz_partial_ratio(v.ven_cln, p.pub0_cln),
                       fz_tok_set_ratio |-> fz_token_set_ratio(v.ven_cln, p.pub0_cln),
                       fz_ptl_tok_sort_ratio |->
                           fz_partial_token_sort_ratio(v.ven_cln, p.pub0_cln),
                       fz_uwratio |-> fz_UWRatio(v.ven_cln, p.pub0_cln)]
        inner(v) == IF Len(v.ven_cln) < 2 THEN <<>>
                    ELSE LET kept == SelectSeq(p_df_arPub.rows, LAMBDA p : keep(v, p))
                         IN [i \in DOMAIN kept |-> pair(v, kept[i])]
        lst_dict == flatten([i \in DOMAIN p_df_cpeVen.rows |-> inner(p_df_cpeVen.rows[i])])
    IN IF lst_dict = <<>> THEN NoFrame
       ELSE DataFrame({"publisher0", "pub0_cln", "vendor_X", "ven_cln", "fz_ratio",
                       "fz_ptl_ratio", "fz_tok_set_ratio", "fz_ptl_tok_sort_ratio",
                       "fz_uwratio"}, lst_dict)

\* pd.io.parsers.read_csv of a readable labelled-example file
read_csv(file) == DataFrame(file.cols, file.rows)

\* _update_with_labelled_data of MatchVendor.match: the exception of the two
\* apply(len) statements, which come before the file is read
ven_len_raises(p_df_match) ==
    IF "vendor_X" \notin p_df_match.cols \/ "publisher0" \notin p_df_match.cols
    THEN "KeyError" ELSE "none"

\* _update_with_labelled_data of MatchVendor.match: the exception it ends with
ven_update_raises(p_df_match, file) ==
    IF ven_len_raises(p_df_match) # "none" THEN ven_len_raises(p_df_match)
    ELSE IF file.io_error THEN "UnboundLocalError"
    ELSE IF "vendor_X" \notin file.cols THEN "KeyError"
    ELSE "none"

\* _update_with_labelled_data of MatchVendor.match: <<df_match_upd, df_match_lbl>>
ven_update_with_labelled_data(p_df_match, file) ==
    LET with_len == DataFrame(p_df_match.cols \cup {"ven_len", "pu0_len"},
                       [i \in DOMAIN p_df_match.rows |->
                           p_df_match.rows[i] @@
                           [ven_len |-> Len(p_df_match.rows[i].vendor_X),
                            pu0_len |-> Len(p_df_match.rows[i].publisher0)]])
        lbl0 == read_csv(file)
        lbl == DataFrame(lbl0.cols,
                   [i \in DOMAIN lbl0.rows |->
                       [lbl0.rows[i] EXCEPT
                           !.vendor_X = str_lower(str_replace(@, {" "}, "_"))]])
    IN <<upd_using_labelled_data("vendor", with_len, lbl), lbl>>

\* a _post_process_matched_data that consolidates with the labelled slice of
\* the candidates, as returned by ml_classify, instead of the labelled file
ven_post_process_labelled_slice(p_df_match_test2, p_df_match_lbl) ==
    select_cols(post_process_matched_data("vendor", p_df_match_test2, df_match_labelled),
                {"publisher0", "vendor_X"})

\* _post_process_matched_data of MatchVendor.match: the table it stores
ven_post_process_matched_data(p_df_match_test2, p_df_match_lbl) ==
    select_cols(post_process_matched_data("vendor", p_df_match_test2, p_df_match_lbl),
                {"publisher0", "vendor_X"})

\* the exception _post_process_matched_data ends with, after the table is stored:
\* sample(20) needs 20 rows
ven_post_process_raises(p_df_match_test2, p_df_match_lbl) ==
    IF Len(ven_post_process_matched_data(p_df_match_test2, p_df_match_lbl).rows)
         < PostSample
    THEN "ValueError" ELSE "none"

-----------------------------------------------------------------------------
(* matchsft.py: class MatchSoft *)

\* MatchSoft.__init__: the stored table before any match
sft_init_table == DataFrame({"vendor_X", "DisplayName0", "Version0",
                             "t_cve_name_x", "t_cve_name_y", "t_cve_name"}, <<>>)

\* release ratio below which a pair is rejected
RelRatioMin == 90
\* release partial ratio below which a pair is rejected
RelPtlRatioMin == 100
\* title partial token set ratio below which a pair is rejected
TitleRatioMin == 70

\* the ':'-separated fields of a CPE name
RECURSIVE cpe_fields(_)
cpe_fields(s) ==
    IF \A i \in DOMAIN s : s[i] # ":" THEN <<s>>
    ELSE LET stop == CHOOSE i \in DOMAIN s : s[i] = ":" /\ \A j \in 1..(i - 1) : s[j] # ":"
         IN <<SubSeq(s, 1, stop - 1)>> \o cpe_fields(SubSeq(s, stop + 1, Len(s)))

Digits == {"0", "1", "2", "3", "4", "5", "6", "7", "8", "9"}

\* the longest prefix of s made of characters of class
RECURSIVE span(_, _)
span(s, class) ==
    IF s = <<>> \/ Head(s) \notin class THEN <<>>
    ELSE <<Head(s)>> \o span(Tail(s), class)

\* a _fix_java_rel that leaves the release as the CPE name gives it
_fix_java_rel_raw(my_cpe_sft) == cpe_fields(my_cpe_sft)[6]

\* _fix_java_rel: the release of a jre/jdk CPE 2.3 name
\* 'cpe:2.3:a:(oracle|sun):(jdk|jre):1.<rel>:[update[_]*<upd>]'; None is NaNStr
_fix_java_rel(my_cpe_sft) ==
    LET f == cpe_fields(my_cpe_sft)
        has_update == str_contains(my_cpe_sft, <<"u", "p", "d", "a", "t", "e">>)
        head_ok == /\ Len(f) >= 7
                   /\ str_lower(f[1]) = <<"c", "p", "e">>
                   /\ Len(f[2]) = 3 /\ f[2][1] = "2" /\ f[2][3] = "3"
                   /\ str_lower(f[3]) = <<"a">>
                   /\ str_lower(f[4]) \in {s_oracle, s_sun}
                   /\ str_lower(f[5]) \in {<<"j", "d", "k">>, <<"j", "r", "e">>}
                   /\ Len(f[6]) >= 2 /\ f[6][1] = "1"
        sft == f[5]
        rel_class == IF has_update THEN Digits \cup {"."} ELSE Digits \cup {".", "_"}
        rel == SubSeq(f[6], 3, Len(f[6]))
        rel_ok == span(rel, rel_class) = rel
        upd_ok == /\ startswith(str_lower(f[7]), <<"u", "p", "d", "a", "t", "e">>)
        upd == span(SubSeq(f[7], 7 + Len(span(SubSeq(f[7], 7, Len(f[7])), {"_"})),
                           Len(f[7])), Digits)
        tmp_str == IF has_update THEN rel \o <<".">> \o upd \o <<"0">> ELSE rel
    IN IF ~(head_ok /\ rel_ok /\ (has_update => upd_ok)) THEN s_dash
       ELSE IF "_" \in Range(rel) THEN <<"1", ".">> \o rel
       ELSE IF sft = <<"j", "r", "e">> THEN tmp_str
       ELSE IF sft = <<"j", "d", "k">>
            THEN (IF startswith(rel, <<"8", ".">>) THEN tmp_str
                  ELSE <<"1", ".">> \o tmp_str)
       ELSE NaNStr

\* an in-place preparation that also drops the caller's Publisher0 column
sft_prepare_dropping(p_df_add_rem_g) ==
    DataFrame((p_df_add_rem_g.cols \ {"Publisher0"}) \cup {"publisher0"},
              [i \in DOMAIN p_df_add_rem_g.rows |->
                  [c \in (p_df_add_rem_g.cols \ {"Publisher0"}) \cup {"publisher0"} |->
                      IF c = "publisher0"
                      THEN str_lower(p_df_add_rem_g.rows[i].Publisher0)
                      ELSE p_df_add_rem_g.rows[i][c]]])

\* a preparation that spells the publisher as the vendor stage stores it
sft_prepare_underscored(p_df_add_rem_g) ==
    DataFrame(p_df_add_rem_g.cols \cup {"publisher0"},
              [i \in DOMAIN p_df_add_rem_g.rows |->
                  [c \in p_df_add_rem_g.cols \cup {"publisher0"} |->
                      IF c = "publisher0"
                      THEN str_lower(str_replace(p_df_add_rem_g.rows[i].Publisher0,
                                                 {" "}, "_"))
                      ELSE p_df_add_rem_g.rows[i][c]]])

\* _match_prepare_sccm_data: the caller's frame after the call
\* (df_add_rem_g0 is df_add_rem_g itself: the column is added in place)
sft_prepare_side_effect(p_df_add_rem_g) ==
    DataFrame(p_df_add_rem_g.cols \cup {"publisher0"},
              [i \in DOMAIN p_df_add_rem_g.rows |->
                  [c \in p_df_add_rem_g.cols \cup {"publisher0"} |->
                      IF c = "publisher0"
                      THEN str_lower(p_df_add_rem_g.rows[i].Publisher0)
                      ELSE p_df_add_rem_g.rows[i][c]]])

\* _match_prepare_sccm_data: the exception it ends with
sft_match_prepare_sccm_raises(p_df_add_rem_g, p_df_match_vendor_publisher) ==
    IF "Publisher0" \notin p_df_add_rem_g.cols THEN "KeyError"
    ELSE IF "publisher0" \notin p_df_match_vendor_publisher.cols THEN "KeyError"
    ELSE IF ~({"vendor_X", "DisplayName0", "Version0"} \subseteq
                (p_df_add_rem_g.cols \cup p_df_match_vendor_publisher.cols))
    THEN "KeyError"
    ELSE "none"

\* _match_prepare_sccm_data: df_arSft_grp, the group keys in sorted order
sft_match_prepare_sccm_data(p_df_add_rem_g, p_df_match_vendor_publisher) ==
    LET g0 == sft_prepare_side_effect(p_df_add_rem_g)
        g1 == select_cols(g0, g0.cols \ {"Publisher0"})
        g3 == merge_left(g1, p_df_match_vendor_publisher, <<"publisher0">>)
        sel == select_cols(g3, {"vendor_X", "DisplayName0", "Version0"})
        df_arSft == DataFrame(sel.cols,
                       [i \in DOMAIN sel.rows |->
                           IF sel.rows[i].Version0 = NaNStr
                           THEN [sel.rows[i] EXCEPT !.Version0 = s_dash]
                           ELSE sel.rows[i]])
        grp_cols == <<"vendor_X", "DisplayName0", "Version0">>
        keys == {key_of(r, grp_cols) : r \in
                    {q \in Range(df_arSft.rows) : \A c \in Range(grp_cols) : ~isnull(q, c)}}
    IN sorted_tuples(keys)

\* _match_prepare_cpe_data: df_cpeSoft, on which groupby(['vendor_X']) works
sft_match_prepare_cpe_data(p_df_cpe4) ==
    select_cols(p_df_cpe4, {"vendor_X", "software_X", "release_X", "title_X",
                            "cpe23-item-name", "@name"})

\* df_cpeSoft_grp.get_group(vendor): the vendor's rows; none is the KeyError
get_group(df_cpeSoft, vendor) ==
    SelectSeq(df_cpeSoft.rows, LAMBDA r : r.vendor_X = vendor)

\* _cartesian_product of MatchSoft.match: the body of the loop over the
\* inventory groups, the rows it appends for the group key
sft_group_pairs(t_key, df_cpeSoft_grp) ==
    LET rel_tmp(c) ==
            IF c.vendor_X \in {s_oracle, s_sun} /\ c.software_X \in {"jre", "jdk"}
            THEN _fix_java_rel(c["cpe23-item-name"])
            ELSE c.release_X
        title_tmp(c) == str_replace_sub(str_lower(c.title_X), c.vendor_X, <<" ">>)
        dsply_tmp(c, key) == str_replace_sub(str_lower(key[2]), c.vendor_X, <<" ">>)
        keep(c, key) ==
            /\ ~(/\ rel_tmp(c) # s_dash /\ key[3] # s_dash
                 /\ \/ fz_ratio(rel_tmp(c), key[3]) < RelRatioMin
                    \/ fz_partial_ratio(rel_tmp(c), key[3]) < RelPtlRatioMin)
            /\ ~(fz_partial_token_set_ratio(title_tmp(c), dsply_tmp(c, key))
                   < TitleRatioMin)
        pair(c, key) ==
            [vendor_X |-> c.vendor_X,
             software_X |-> c.software_X,
             Version0 |-> key[3],
             release_X |-> c.release_X,
             title_X |-> c.title_X,
             DisplayName0 |-> key[2],
             fz_ratio |-> fz_ratio(title_tmp(c), dsply_tmp(c, key)),
             fz_ptl_ratio |-> fz_partial_ratio(title_tmp(c), dsply_tmp(c, key)),
             fz_tok_set_ratio |->
                 fz_partial_token_set_ratio(title_tmp(c), dsply_tmp(c, key)),
             fz_ptl_tok_sort_ratio |->
                 fz_token_sort_ratio(title_tmp(c), dsply_tmp(c, key)),
             fz_uwratio |-> fz_UWRatio(title_tmp(c), dsply_tmp(c, key)),
             fz_rel_ratio |-> fz_ratio(rel_tmp(c), key[3]),
             fz_rel_ptl_ratio |-> fz_partial_ratio(rel_tmp(c), key[3]),
             t_cve_name |-> c["@name"],
             titlX_len |-> Len(c.title_X),
             DsplyNm0_len |-> Len(key[2])]
    IN  IF t_key[1] = s_microsoft THEN <<>>
        ELSE IF t_key[1] = s_cisco /\ t_key[3] = s_dash
                /\ str_contains(str_lower(t_key[2]), s_webex) THEN <<>>
        ELSE LET kept == SelectSeq(get_group(df_cpeSoft_grp, t_key[1]),
                                   LAMBDA c : keep(c, t_key))
             IN [i \in DOMAIN kept |-> pair(kept[i], t_key)]

\* the columns of the frame built from lst_dict
sft_pair_cols ==
    {"vendor_X", "software_X", "title_X", "DisplayName0",
     "release_X", "Version0", "fz_ratio", "fz_ptl_ratio",
     "fz_tok_set_ratio", "fz_ptl_tok_sort_ratio", "fz_uwratio",
     "fz_rel_ratio", "fz_rel_ptl_ratio", "t_cve_name",
     "titlX_len", "DsplyNm0_len"}

\* a _cartesian_product whose KeyError handler ends the loop (break): the
\* groups after one without a catalog partition are not looked at
sft_cartesian_product_stopping(df_arSft_grp, df_cpeSoft_grp) ==
    LET missing == {i \in DOMAIN df_arSft_grp :
                       get_group(df_cpeSoft_grp, df_arSft_grp[i][1]) = <<>>}
        last == IF missing = {} THEN Len(df_arSft_grp)
                ELSE (CHOOSE i \in missing : \A j \in missing : i <= j) - 1
        lst_dict == flatten([i \in 1..last |->
                                sft_group_pairs(df_arSft_grp[i], df_cpeSoft_grp)])
    IN IF lst_dict = <<>> THEN NoFrame ELSE DataFrame(sft_pair_cols, lst_dict)

\* _cartesian_product of MatchSoft.match
sft_cartesian_product(df_arSft_grp, df_cpeSoft_grp) ==
    LET lst_dict == flatten([i \in DOMAIN df_arSft_grp |->
                                sft_group_pairs(df_arSft_grp[i], df_cpeSoft_grp)])
    IN IF lst_dict = <<>> THEN NoFrame
       ELSE DataFrame(sft_pair_cols, lst_dict)

\* _update_with_labelled_data of MatchSoft.match: the exception it ends with
sft_update_raises(file) ==
    IF file.io_error THEN "UnboundLocalError"
    ELSE IF "match" \notin file.cols THEN "KeyError"
    ELSE "none"

\* _update_with_labelled_data of MatchSoft.match: <<df_match1_lbl, labelled_sft_data>>
sft_update_with_labelled_data(p_df_match1, file) ==
    <<upd_using_labelled_data("software", p_df_match1, read_csv(file)), read_csv(file)>>

\* a selection of the best rows that forgets the filter on match
replace_dups_any_label(p_df) ==
    IF empty(p_df) THEN p_df
    ELSE LET grp_cols == <<"vendor_X", "DisplayName0", "Version0">>
             group(r) == {q \in Range(p_df.rows) :
                              key_of(q, grp_cols) = key_of(r, grp_cols)}
             is_max(r) == \A q \in group(r) : q.fz_uwratio <= r.fz_uwratio
         IN drop_duplicates(DataFrame(p_df.cols, SelectSeq(p_df.rows, is_max)), grp_cols)

\* a selection of the best rows by joining every Positive row to the best rows
\* of its group, without the final drop_duplicates
replace_dups_by_join(p_df) ==
    IF empty(p_df) THEN p_df
    ELSE LET grp_cols == <<"vendor_X", "DisplayName0", "Version0">>
             pos == SelectSeq(p_df.rows, LAMBDA r : r.match = 1)
             best(r) == SelectSeq(pos, LAMBDA q :
                           /\ key_of(q, grp_cols) = key_of(r, grp_cols)
                           /\ \A u \in Range(pos) :
                                 key_of(u, grp_cols) = key_of(r, grp_cols)
                                     => u.fz_uwratio <= q.fz_uwratio)
         IN DataFrame(p_df.cols, flatten([i \in DOMAIN pos |-> best(pos[i])]))

\* replace_dups_by_best_match: of the rows with match = 1, the first row of
\* each (vendor_X, DisplayName0, Version0) group that has the group's
\* maximal fz_uwratio
replace_dups_by_best_match(p_df) ==
    IF empty(p_df) THEN p_df
    ELSE LET grp_cols == <<"vendor_X", "DisplayName0", "Version0">>
             pos == SelectSeq(p_df.rows, LAMBDA r : r.match = 1)
             group(r) == {q \in Range(pos) : key_of(q, grp_cols) = key_of(r, grp_cols)}
             is_max(r) == /\ \A c \in Range(grp_cols) : ~isnull(r, c)
                          /\ r.fz_uwratio # NaN
                          /\ \A q \in group(r) : q.fz_uwratio <= r.fz_uwratio
             tst2b == DataFrame(p_df.cols, SelectSeq(pos, is_max))
         IN drop_duplicates(tst2b, grp_cols)

\* _post_process_matched_data of MatchSoft.match: the table it stores
sft_post_process_matched_data(p_df_match1_test2, p_labelled_sft_data) ==
    IF empty(p_df_match1_test2) THEN p_df_match1_test2
    ELSE select_cols(
             post_process_matched_data("software",
                 replace_dups_by_best_match(p_df_match1_test2),
                 replace_dups_by_best_match(p_labelled_sft_data)),
             {"vendor_X", "DisplayName0", "Version0", "t_cve_name"})

-----------------------------------------------------------------------------
(* The data the runs are made on *)

cpe_row(vendor, software, release, title, cpe23, name) ==
    [vendor_X |-> vendor, software_X |-> software, release_X |-> release,
     title_X |-> title] @@ ("cpe23-item-name" :> cpe23) @@ ("@name" :> name)

CpeCols == {"vendor_X", "software_X", "release_X", "title_X", "cpe23-item-name", "@name"}

cpe23_reader ==
    <<"c", "p", "e", ":", "2", ".", "3", ":", "a", ":", "a", "d", "o", "b",
      "e", ":", "r", "e", "a", "d", "e", "r", ":", "1", "1", ".", "0">>
cpe23_acrobat_reader ==
    <<"c", "p", "e", ":", "2", ".", "3", ":", "a", ":", "a", "d", "o", "b",
      "e", ":", "a", "c", "r", "o", "b", "a", "t", "_", "r", "e", "a", "d",
      "e", "r", ":", "1", "1", ".", "0">>
cpe23_database ==
    <<"c", "p", "e", ":", "2", ".", "3", ":", "a", ":", "o", "r", "a", "c",
      "l", "e", ":", "d", "a", "t", "a", "b", "a", "s", "e">>

\* catalog entries: two products of adobe, one of oracle
CatalogRows ==
    <<cpe_row(s_adobe, "reader", s_11_0, S_Adobe_Reader,
              cpe23_reader, "cpe:/a:adobe:reader:11.0"),
      cpe_row(s_adobe, "acrobat_reader", s_11_0, S_Adobe_Acrobat_Reader,
              cpe23_acrobat_reader, "cpe:/a:adobe:acrobat_reader:11.0"),
      cpe_row(s_oracle, "database", s_dash, S_Oracle_Database,
              cpe23_database, "cpe:/a:oracle:database")>>

SccmCols == {"Publisher0", "DisplayName0", "Version0"}

\* inventory records: one product of publisher Adobe, one of Oracle Corporation
InventoryRows ==
    <<[Publisher0 |-> S_Adobe, DisplayName0 |-> S_Adobe_Reader, Version0 |-> s_11_0],
      [Publisher0 |-> S_Oracle_Corporation, DisplayName0 |-> S_Oracle_Database,
       Version0 |-> NaNStr]>>

\* the i-th lower-case letter
letter(i) == Alphabet[ord("a") + i - 1]

\* n more catalog entries, of n vendors that resemble no publisher
PadCpe(n) == [i \in 1..n |->
                cpe_row(<<"p", "v", "_", letter(i)>>, "pad", s_dash, <<"P", "v">>,
                        <<"p">>, "pad")]

\* n more inventory records, of n publishers that resemble no vendor
PadSccm(n) == [i \in 1..n |->
                 [Publisher0 |-> <<"P", "p", " ", letter(i)>>,
                  DisplayName0 |-> <<"P", "p">>, Version0 |-> NaNStr]]

\* the caller's catalog and inventory frames of an inventory choice
cpe_frame(inv) ==
    DataFrame(CpeCols, SubSeq(CatalogRows, 1, inv.n_cpe)
                       \o (IF inv.padded THEN PadCpe(PrepareSample) ELSE <<>>))
sccm_frame(inv) ==
    DataFrame(SccmCols, SubSeq(InventoryRows, 1, inv.n_sccm)
                        \o (IF inv.padded THEN PadSccm(PrepareSample) ELSE <<>>))

Inventories(t) ==
    IF t = "vendor"
    THEN {[n_cpe |-> 0, n_sccm |-> 0, padded |-> FALSE],
          [n_cpe |-> 1, n_sccm |-> 2, padded |-> FALSE],
          [n_cpe |-> 0, n_sccm |-> 0, padded |-> TRUE],
          [n_cpe |-> 1, n_sccm |-> 1, padded |-> TRUE],
          [n_cpe |-> 3, n_sccm |-> 2, padded |-> TRUE]}
    ELSE {[n_cpe |-> 0, n_sccm |-> 0, padded |-> FALSE],
          [n_cpe |-> 3, n_sccm |-> 0, padded |-> FALSE],
          [n_cpe |-> 1, n_sccm |-> 1, padded |-> FALSE],
          [n_cpe |-> 2, n_sccm |-> 1, padded |-> FALSE],
          [n_cpe |-> 3, n_sccm |-> 2, padded |-> FALSE]}

\* vendor-publisher tables a caller hands to MatchSoft.match
VenPubTables ==
    {ven_init_table,
     DataFrame({"publisher0", "vendor_X"},
               <<[publisher0 |-> s_adobe, vendor_X |-> s_adobe]>>),
     DataFrame({"publisher0", "vendor_X"},
               <<[publisher0 |-> s_adobe, vendor_X |-> s_adobe],
                 [publisher0 |-> s_oracle_corporation, vendor_X |-> s_oracle]>>)}

\* the largest inputs: every candidate of the model occurs in their run
FullInventory == [n_cpe |-> 3, n_sccm |-> 2, padded |-> TRUE]
FullVenPub == DataFrame({"publisher0", "vendor_X"},
                        <<[publisher0 |-> s_adobe, vendor_X |-> s_adobe]>>)
NoLabels(cols) == [io_error |-> FALSE, cols |-> cols, rows |-> <<>>]

VenCandidates ==
    ven_update_with_labelled_data(
        ven_cartesian_product(
            ven_match_prepare(cpe_frame(FullInventory), sccm_frame(FullInventory))[1],
            ven_match_prepare(cpe_frame(FullInventory), sccm_frame(FullInventory))[2]),
        NoLabels({"publisher0", "vendor_X", "match"}))[1]

SftCandidates ==
    sft_cartesian_product(
        sft_match_prepare_sccm_data(sccm_frame(FullInventory), FullVenPub),
        sft_match_prepare_cpe_data(cpe_frame(FullInventory)))

AllCandidates(t) == IF t = "vendor" THEN VenCandidates ELSE SftCandidates

\* the feature vectors a classifier of the stage can be asked about
VenFeatureVectors == Range(feature_matrix("vendor", VenCandidates))
SftFeatureVectors == Range(feature_matrix("software", SftCandidates))
FeatureVectors(t) == IF t = "vendor" THEN VenFeatureVectors ELSE SftFeatureVectors

\* rows a labelled-example file can hold: the key of a candidate with a label
\* (the vendor file spells the vendor as typed by the labeller)
VenLabelRows ==
    {[publisher0 |-> k[1], vendor_X |-> k[2], match |-> m] :
        k \in {<<s_adobe, s_adobe>>, <<s_oracle_corporation, S_Oracle>>}, m \in {0, 1}}

SftLabelRows ==
    {[vendor_X |-> s_adobe, software_X |-> k[1], title_X |-> k[2],
      DisplayName0 |-> S_Adobe_Reader, release_X |-> s_11_0, Version0 |-> s_11_0,
      match |-> m, fz_uwratio |-> k[3], t_cve_name |-> k[4]] :
        k \in {<<"reader", S_Adobe_Reader, 100, "cpe:/a:adobe:reader:11.0">>,
               <<"acrobat_reader", S_Adobe_Acrobat_Reader, 90,
                 "cpe:/a:adobe:acrobat_reader:11.0">>},
        m \in {0, 1}}

LabelRows(t) == IF t = "vendor" THEN VenLabelRows ELSE SftLabelRows

LabelCols(t) ==
    IF t = "vendor" THEN {"publisher0", "vendor_X", "match"}
    ELSE Range(sft_key_list) \cup {"match", "fz_uwratio", "t_cve_name"}

\* n more labelled vendor pairs, all Positive, of names that occur nowhere else
PadLabels(n) == [i \in 1..n |->
                   [publisher0 |-> <<"l", "p", "_", letter(i)>>,
                    vendor_X |-> <<"l", "v", "_", letter(i)>>, match |-> 1]]

SeqsUpTo(S, n) == UNION {[1..k -> S] : k \in 0..n}

LabelFilesOf(t) ==
    {[io_error |-> TRUE, cols |-> {}, rows |-> <<>>]}
    \cup {[io_error |-> FALSE, cols |-> LabelCols(t), rows |-> rows \o pad] :
            rows \in SeqsUpTo(LabelRows(t), MaxLbl),
            pad \in (IF t = "vendor" THEN {<<>>, PadLabels(PostSample)} ELSE {<<>>})}
VenLabelFiles == LabelFilesOf("vendor")
SftLabelFiles == LabelFilesOf("software")
LabelFiles(t) == IF t = "vendor" THEN VenLabelFiles ELSE SftLabelFiles

init_table(t) == IF t = "vendor" THEN ven_init_table ELSE sft_init_table

NoErr == [where |-> "none", what |-> "none"]

\* label_file before a run has read the labelled-example file
NotRead == NoLabels({})

-----------------------------------------------------------------------------
(* The state machine: one match() call at a time, step by step *)

\* no driver: match() is called by a test
NoDriver ==
    /\ args_action = <<>>
    /\ proc = "none"
    /\ todo = <<>>
    /\ job = "none"
    /\ raised_in = "none"
    /\ days = 0

\* the stage files
Stages == {"vendor", "software"}
NoFile == [n |-> -1]

\* no matcher is used through get, save and load
NoStore ==
    /\ objs = [o \in Stages \cup {"caller"} |-> NoFrame]
    /\ got = "none"
    /\ pck = [st \in Stages |-> NoFile]
    /\ st_op = [op |-> "none", stage |-> "none"]

\* download_cve is not called
NoNvd ==
    /\ nvd_pc = "idle"
    /\ nvd_index = 0
    /\ meta_files = <<>>
    /\ cve_files = <<>>
    /\ http_log = <<>>
    /\ nvd_runs = 0

\* no CPE dictionary file of that name
NoCpeFile == [text |-> "no file", age |-> 0]

\* download_cpe is not called
NoCpe ==
    /\ cpe_pc = "idle"
    /\ my_cpe = NoCpeFile
    /\ cpe_log = <<>>
    /\ cpe_calls = 0

Init ==
    /\ NoDriver
    /\ NoStore
    /\ NoNvd
    /\ NoCpe
    /\ type_data \in {"vendor", "software"}
    /\ clf_loaded \in BOOLEAN
    /\ clf \in (IF clf_loaded THEN SUBSET FeatureVectors(type_data) ELSE {{}})
    /\ label_file = NotRead
    /\ \E inv \in Inventories(type_data) :
          /\ df_cpe = cpe_frame(inv)
          /\ df_sccm_ar = sccm_frame(inv)
    /\ df_ven_pub \in (IF type_data = "software" THEN VenPubTables ELSE {ven_init_table})
    /\ pc = "prepare"
    /\ err = NoErr
    /\ df_prep = <<NoFrame, NoFrame>>
    /\ df_match = NoFrame
    /\ df_match_upd = NoFrame
    /\ df_match_lbl = NoFrame
    /\ df_match_test2 = NoFrame
    /\ df_match_labelled = NoFrame
    /\ predict_arg = <<>>
    /\ table = init_table(type_data)
    /\ runs = 1
    /\ baseline = NoFrame
    /\ fn_in = <<NoFrame, NoFrame>>
    /\ fn_out = NoFrame
    /\ fn_pc = "idle"

inputs == <<type_data, clf_loaded, clf, df_cpe, df_ven_pub>>

\* the labelled-example file as read by a run: any file for the first run, and
\* for the second run the file the first run read
ReadLabelFile(file) ==
    /\ runs = 1 \/ file = label_file
    /\ label_file' = file
harness == <<fn_in, fn_out, fn_pc, others>>

\* the run ends with an exception raised in step where
Raise(where, what) ==
    /\ pc' = "raised"
    /\ err' = [where |-> where, what |-> what]

\* MatchVendor.match: (df_arPub, df_cpeVen) = _match_prepare(df_cpe, df_sccm_ar)
VenMatchPrepare ==
    /\ type_data = "vendor" /\ pc = "prepare"
    /\ LET raised == ven_match_prepare_raises(df_cpe, df_sccm_ar)
       IN IF raised # "none"
          THEN /\ Raise("_match_prepare", raised)
               /\ UNCHANGED df_prep
          ELSE /\ df_prep' = ven_match_prepare(df_cpe, df_sccm_ar)
               /\ pc' = "cartesian"
               /\ UNCHANGED err
    /\ UNCHANGED <<inputs, label_file, df_sccm_ar, df_match, df_match_upd, df_match_lbl,
                   df_match_test2, df_match_labelled, predict_arg, table, runs,
                   baseline, harness>>

\* MatchVendor.match: df_match = _cartesian_product(df_arPub, df_cpeVen)
VenCartesianProduct ==
    /\ type_data = "vendor" /\ pc = "cartesian"
    /\ df_match' = ven_cartesian_product(df_prep[1], df_prep[2])
    /\ pc' = "update"
    /\ UNCHANGED <<inputs, label_file, df_sccm_ar, err, df_prep, df_match_upd,
                   df_match_lbl,
                   df_match_test2, df_match_labelled, predict_arg, table, runs,
                   baseline, harness>>

\* MatchVendor.match: (df_match_upd, df_match_lbl) = _update_with_labelled_data(df_match)
VenUpdateWithLabelledData ==
    /\ type_data = "vendor" /\ pc = "update"
    /\ IF ven_len_raises(df_match) # "none"
       THEN /\ Raise("_update_with_labelled_data", ven_len_raises(df_match))
            /\ UNCHANGED <<label_file, df_match_upd, df_match_lbl>>
       ELSE \E file \in LabelFiles(type_data) :
               /\ ReadLabelFile(file)
               /\ LET raised == ven_update_raises(df_match, file)
                      returned == ven_update_with_labelled_data(df_match, file)
                  IN IF raised # "none"
                     THEN /\ Raise("_update_with_labelled_data", raised)
                          /\ UNCHANGED <<df_match_upd, df_match_lbl>>
                     ELSE /\ df_match_upd' = returned[1]
                          /\ df_match_lbl' = returned[2]
                          /\ pc' = "classify"
                          /\ UNCHANGED err
    /\ UNCHANGED <<inputs, df_sccm_ar, df_prep, df_match, df_match_test2,
                   df_match_labelled, predict_arg, table, runs, baseline, harness>>

\* both stages: (df_match_test2, df_match_labelled) = self.__ML.ml_classify(df_match_upd)
MlClassify ==
    /\ pc = "classify"
    /\ LET raised == ml_classify_raises(clf_loaded, df_match_upd)
           returned == ml_classify(type_data, clf, df_match_upd)
       IN IF raised # "none"
          THEN /\ Raise("ml_classify", raised)
               /\ UNCHANGED <<df_match_test2, df_match_labelled, predict_arg>>
          ELSE /\ df_match_test2' = returned[1]
               /\ df_match_labelled' = returned[2]
               /\ predict_arg' = predict_arg \o ml_classify_calls(type_data, df_match_upd)
               /\ pc' = "post"
               /\ UNCHANGED err
    /\ UNCHANGED <<inputs, label_file, df_sccm_ar, df_prep, df_match, df_match_upd,
                   df_match_lbl,
                   table, runs, baseline, harness>>

\* MatchVendor.match: _post_process_matched_data(df_match_test2, df_match_lbl)
VenPostProcess ==
    /\ type_data = "vendor" /\ pc = "post"
    /\ table' = ven_post_process_matched_data(df_match_test2, df_match_lbl)
    /\ LET raised == ven_post_process_raises(df_match_test2, df_match_lbl)
       IN IF raised # "none"
          THEN Raise("_post_process_matched_data", raised)
          ELSE pc' = "done" /\ UNCHANGED err
    /\ UNCHANGED <<inputs, label_file, df_sccm_ar, df_prep, df_match, df_match_upd,
                   df_match_lbl,
                   df_match_test2, df_match_labelled, predict_arg, runs, baseline,
                   harness>>

\* MatchSoft.match: df_arSft_grp = _match_prepare_sccm_data(...);
\*                  df_cpeSoft_grp = _match_prepare_cpe_data(df_cpe4)
SftMatchPrepare ==
    /\ type_data = "software" /\ pc = "prepare"
    /\ LET raised == sft_match_prepare_sccm_raises(df_sccm_ar, df_ven_pub)
       IN IF raised # "none"
          THEN /\ Raise("_match_prepare_sccm_data", raised)
               /\ UNCHANGED <<df_prep, df_sccm_ar>>
          ELSE /\ df_prep' = <<sft_match_prepare_sccm_data(df_sccm_ar, df_ven_pub),
                               sft_match_prepare_cpe_data(df_cpe)>>
               /\ df_sccm_ar' = sft_prepare_side_effect(df_sccm_ar)
               /\ pc' = "cartesian"
               /\ UNCHANGED err
    /\ UNCHANGED <<inputs, label_file, df_match, df_match_upd, df_match_lbl,
                   df_match_test2,
                   df_match_labelled, predict_arg, table, runs, baseline, harness>>

\* MatchSoft.match: df_match1 = _cartesian_product(df_arSft_grp, df_cpeSoft_grp)
SftCartesianProduct ==
    /\ type_data = "software" /\ pc = "cartesian"
    /\ df_match' = sft_cartesian_product(df_prep[1], df_prep[2])
    /\ pc' = "update"
    /\ UNCHANGED <<inputs, label_file, df_sccm_ar, err, df_prep, df_match_upd,
                   df_match_lbl,
                   df_match_test2, df_match_labelled, predict_arg, table, runs,
                   baseline, harness>>

\* MatchSoft.match: (df_match1_lbl, labelled_sft_data) = _update_with_labelled_data(df_match1)
SftUpdateWithLabelledData ==
    /\ type_data = "software" /\ pc = "update"
    /\ \E file \in LabelFiles(type_data) :
          /\ ReadLabelFile(file)
          /\ LET raised == sft_update_raises(file)
                 returned == sft_update_with_labelled_data(df_match, file)
             IN IF raised # "none"
                THEN /\ Raise("_update_with_labelled_data", raised)
                     /\ UNCHANGED <<df_match_upd, df_match_lbl>>
                ELSE /\ df_match_upd' = returned[1]
                     /\ df_match_lbl' = returned[2]
                     /\ pc' = "classify"
                     /\ UNCHANGED err
    /\ UNCHANGED <<inputs, df_sccm_ar, df_prep, df_match, df_match_test2,
                   df_match_labelled, predict_arg, table, runs, baseline, harness>>

\* MatchSoft.match: _post_process_matched_data(df_match1_test2, labelled_sft_data)
SftPostProcess ==
    /\ type_data = "software" /\ pc = "post"
    /\ table' = sft_post_process_matched_data(df_match_test2, df_match_lbl)
    /\ pc' = "done"
    /\ UNCHANGED <<inputs, label_file, df_sccm_ar, err, df_prep, df_match, df_match_upd,
                   df_match_lbl, df_match_test2, df_match_labelled, predict_arg,
                   runs, baseline, harness>>

\* the test harness: the table of the completed run is the baseline, and a new
\* matcher object is handed the same frames, label file and model again
MatchAgain ==
    /\ pc = "done" /\ runs = 1
    /\ baseline' = table
    /\ runs' = runs + 1
    /\ table' = init_table(type_data)
    /\ pc' = "prepare"
    /\ df_prep' = <<NoFrame, NoFrame>>
    /\ df_match' = NoFrame
    /\ df_match_upd' = NoFrame
    /\ df_match_lbl' = NoFrame
    /\ df_match_test2' = NoFrame
    /\ df_match_labelled' = NoFrame
    /\ predict_arg' = <<>>
    /\ UNCHANGED <<inputs, label_file, df_sccm_ar, err, harness>>

Next ==
    \/ VenMatchPrepare
    \/ VenCartesianProduct
    \/ VenUpdateWithLabelledData
    \/ MlClassify
    \/ VenPostProcess
    \/ SftMatchPrepare
    \/ SftCartesianProduct
    \/ SftUpdateWithLabelledData
    \/ SftPostProcess
    \/ MatchAgain

Spec == Init /\ [][Next]_vars

-----------------------------------------------------------------------------
(* vulns.py: MatchVulns.data_merge, the criticality of a product.  A CVSS
   score is held in tenths, so that 7 is 70 and 4 is 40 *)

\* categories=['HIGH', 'MEDIUM', 'LOW'], ordered=True
cvss_acc_cmpl_categories == <<"HIGH", "MEDIUM", "LOW">>
\* categories=['LOCAL', 'ADJACENT_NETWORK', 'NETWORK'], ordered=True
cvss_acc_vect_categories == <<"LOCAL", "ADJACENT_NETWORK", "NETWORK">>
\* my_crit_categories
my_crit_categories == <<"None", "Low", "Medium", "High">>

\* the code of a value in an ordered category: its place in categories, and
\* the null code for a value that is no category
cat_code(categories, v) ==
    IF v \in Range(categories)
    THEN CHOOSE i \in DOMAIN categories : categories[i] = v
    ELSE NaN

\* Series.astype('category', categories=categories, ordered=True): a value
\* that is no category becomes null
astype_category(categories, v) == IF v \in Range(categories) THEN v ELSE NaNId

decimal_digits == <<"0", "1", "2", "3", "4", "5", "6", "7", "8", "9">>

RECURSIVE int_of_digits(_)
int_of_digits(s) ==
    IF s = <<>> THEN 0
    ELSE 10 * int_of_digits(SubSeq(s, 1, Len(s) - 1))
         + (CHOOSE d \in 0..9 : decimal_digits[d + 1] = s[Len(s)])

\* pd.to_numeric(text, errors='coerce') on a text of digits with at most one
\* decimal: the number in tenths, and null for any other text
to_numeric(text) ==
    LET digits(s) == s # <<>> /\ \A i \in DOMAIN s : s[i] \in Range(decimal_digits)
        n == Len(text)
    IN IF digits(text) THEN 10 * int_of_digits(text)
       ELSE IF n >= 3 /\ text[n - 1] = "." /\ digits(SubSeq(text, 1, n - 2))
               /\ digits(<<text[n]>>)
       THEN 10 * int_of_digits(SubSeq(text, 1, n - 2)) + int_of_digits(<<text[n]>>)
       ELSE NaN

\* max of a group of the column in the order of the strings instead
categorical_max_alphabetical(categories, values) ==
    LET alphabetical == <<"ADJACENT_NETWORK", "HIGH", "LOCAL", "LOW", "MEDIUM",
                          "NETWORK">>
        codes == {cat_code(alphabetical, values[i]) : i \in DOMAIN values} \ {NaN}
    IN IF codes = {} THEN NaNId
       ELSE alphabetical[CHOOSE c \in codes : \A d \in codes : d <= c]

\* max of a group of an ordered categorical column: the category of the
\* greatest code, nulls left out; null when the group holds nulls only
categorical_max(categories, values) ==
    LET codes == {cat_code(categories, values[i]) : i \in DOMAIN values} \ {NaN}
    IN IF codes = {} THEN NaNId
       ELSE categories[CHOOSE c \in codes : \A d \in codes : d <= c]

\* max of a group of a float column: nulls left out; null when the group
\* holds nulls only
numeric_max(values) ==
    LET nums == Range(values) \ {NaN}
    IN IF nums = {} THEN NaN ELSE CHOOSE x \in nums : \A y \in nums : y <= x

\* myfn6(row): a comparison with a null score is False
myfn6(row) ==
    LET my_score == row.cvss_score
        my_ease == row.cvss_acc_cmpl_cat \in {"LOW", "MEDIUM"}
        my_access == row.cvss_acc_vect_cat \in {"NETWORK", "ADJACENT_NETWORK"}
    IN IF (my_score # NaN /\ my_score > 70) /\ my_ease /\ my_access THEN "High"
       ELSE IF (my_score # NaN /\ my_score < 40) \/ (~my_ease /\ ~my_access)
       THEN "Low"
       ELSE "Medium"

\* the three columns _categorize_cvss_data adds to a row of the CVE data
categorized(row) ==
    [cpe_prod |-> row.vuln_product,
     cvss_acc_cmpl_cat |-> astype_category(cvss_acc_cmpl_categories,
                                           row.cvss_access_complexity),
     cvss_acc_vect_cat |-> astype_category(cvss_acc_vect_categories,
                                           row.cvss_access_vector),
     cvss_score |-> to_numeric(row.cvss_score)]

\* _categorize_cvss_data(df_sft3): the frame indexed by cpe_prod that holds
\* for each product the maxima of its rows and the criticality of the maxima
categorize_cvss_data(df_sft3) ==
    LET df_sft4 == [i \in DOMAIN df_sft3 |-> categorized(df_sft3[i])]
        df_sft4_gp(prod) == SelectSeq(df_sft4, LAMBDA r : r.cpe_prod = prod)
        agg(prod) ==
            LET gp == df_sft4_gp(prod)
            IN [cvss_score |-> numeric_max([i \in DOMAIN gp |-> gp[i].cvss_score]),
                cvss_acc_cmpl_cat |->
                    categorical_max(cvss_acc_cmpl_categories,
                                    [i \in DOMAIN gp |-> gp[i].cvss_acc_cmpl_cat]),
                cvss_acc_vect_cat |->
                    categorical_max(cvss_acc_vect_categories,
                                    [i \in DOMAIN gp |-> gp[i].cvss_acc_vect_cat])]
    IN [prod \in {df_sft4[i].cpe_prod : i \in DOMAIN df_sft4} |->
            [cvss_score |-> agg(prod).cvss_score,
             cvss_acc_cmpl_cat |-> agg(prod).cvss_acc_cmpl_cat,
             cvss_acc_vect_cat |-> agg(prod).cvss_acc_vect_cat,
             crit_X_cat |-> astype_category(my_crit_categories, myfn6(agg(prod)))]]

-----------------------------------------------------------------------------
(* The two post-processing functions on their own, applied to frames a caller
   can build: MatchSoft.replace_dups_by_best_match and
   MLClassify.post_process_matched_data *)

\* rows of a frame of software candidates: two inventory products, the first
\* with two catalog entries of equal best score, one of lower score and one
\* rejected entry of high score; the second with an accepted and a rejected one
FnSftRow(vendor, display, version, m, uw, cve) ==
    [vendor_X |-> vendor, DisplayName0 |-> display, Version0 |-> version,
     match |-> m, fz_uwratio |-> uw, t_cve_name |-> cve]

FnSftRows ==
    {FnSftRow(s_adobe, S_Adobe_Reader, s_11_0, 1, 95, "cpe:/a:adobe:reader:11.0"),
     FnSftRow(s_adobe, S_Adobe_Reader, s_11_0, 1, 95, "cpe:/a:adobe:acrobat_reader:11.0"),
     FnSftRow(s_adobe, S_Adobe_Reader, s_11_0, 1, 90, "cpe:/a:adobe:reader"),
     FnSftRow(s_adobe, S_Adobe_Reader, s_11_0, 0, 95, "cpe:/a:adobe:flash_player"),
     FnSftRow(s_oracle, S_Oracle_Database, s_dash, 1, 90, "cpe:/a:oracle:database"),
     FnSftRow(s_oracle, S_Oracle_Database, s_dash, 0, 95, "cpe:/a:oracle:jre")}

FnSftCols == {"vendor_X", "DisplayName0", "Version0", "match", "fz_uwratio", "t_cve_name"}

\* rows of a frame of vendor pairs with their labels
FnVenRows ==
    {[publisher0 |-> p, vendor_X |-> p, match |-> m] : p \in {s_adobe, s_oracle}, m \in {0, 1}}

FnVenCols == {"publisher0", "vendor_X", "match"}

\* the frames of at most MaxFnRows of the rows, and pd.DataFrame([])
FnFrames(cols, rows) ==
    {NoFrame} \cup {DataFrame(cols, s) : s \in SeqsUpTo(rows, MaxFnRows)}

\* the vendor names of a catalog and the publisher names of an inventory
FnVendorNames == {s_oracle, S_Oracle, s_adobe, s_inc}
FnPublisherNames == {S_Oracle_Corporation, s_oracle_corporation, s_adobe_systems, S_Adobe}

\* the catalogs and the inventories of at most MaxFnNames of the names
FnCatalogs ==
    {DataFrame(CpeCols, [i \in DOMAIN s |-> cpe_row(s[i], <<"p">>, s_dash, <<"P">>, cpe23_reader, "c")])
        : s \in SeqsUpTo(FnVendorNames, MaxFnNames)}
FnInventories ==
    {DataFrame(SccmCols, [i \in DOMAIN s |->
                             [Publisher0 |-> s[i], DisplayName0 |-> <<"P">>,
                              Version0 |-> NaNStr]])
        : s \in SeqsUpTo(FnPublisherNames, MaxFnNames)}

\* no match() is running
NoRun ==
    /\ clf_loaded = FALSE
    /\ clf = {}
    /\ label_file = NoLabels({})
    /\ df_cpe = NoFrame
    /\ df_sccm_ar = NoFrame
    /\ df_ven_pub = NoFrame
    /\ pc = "idle"
    /\ err = NoErr
    /\ df_prep = <<NoFrame, NoFrame>>
    /\ df_match = NoFrame
    /\ df_match_upd = NoFrame
    /\ df_match_lbl = NoFrame
    /\ df_match_test2 = NoFrame
    /\ df_match_labelled = NoFrame
    /\ predict_arg = <<>>
    /\ table = NoFrame
    /\ runs = 0
    /\ baseline = NoFrame

\* inventory groups of three vendors (no catalog has software of sun), and the
\* catalogs made of some of the catalog entries
FnGroups == {<<s_adobe, S_Adobe_Reader, s_11_0>>,
             <<s_oracle, S_Oracle_Database, s_dash>>,
             <<s_sun, <<"J", "a", "v", "a">>, s_dash>>}
\* more catalog entries: of microsoft, of cisco without a release, and a
\* Java runtime of oracle
cpe23_office == <<"c", "p", "e", ":", "2", ".", "3", ":", "a", ":", "m", "i", "c", "r", "o", "s", "o", "f", "t", ":", "o", "f", "f", "i", "c", "e", ":", "1", "5", ".", "0">>
cpe23_webex == <<"c", "p", "e", ":", "2", ".", "3", ":", "a", ":", "c", "i", "s", "c", "o", ":", "w", "e", "b", "e", "x", "_", "m", "e", "e", "t", "i", "n", "g", "s">>
cpe23_jre == <<"c", "p", "e", ":", "2", ".", "3", ":", "a", ":", "o", "r", "a", "c", "l", "e", ":", "j", "r", "e", ":", "1", ".", "8", ".", "0", ":", "u", "p", "d", "a", "t", "e", "_", "2", "5">>
FnCatalogRows ==
    <<cpe_row(s_microsoft, "office", s_15_0, S_Microsoft_Office,
              cpe23_office, "cpe:/a:microsoft:office:15.0"),
      cpe_row(s_cisco, "webex_meetings", s_dash, S_Cisco_WebEx_Meetings,
              cpe23_webex, "cpe:/a:cisco:webex_meetings"),
      cpe_row(s_oracle, "jre", s_1_8_0, S_Oracle_JRE,
              cpe23_jre, "cpe:/a:oracle:jre:1.8.0:update_25")>>
FnSftCatalogs ==
    {DataFrame(CpeCols, SelectSeq(CatalogRows, LAMBDA c : c["@name"] \in names) \o more)
        : names \in SUBSET {CatalogRows[i]["@name"] : i \in DOMAIN CatalogRows},
          more \in {<<>>, FnCatalogRows}}
\* more inventory groups: of microsoft, of cisco webex without and with a
\* version, of another release of the adobe product, and a Java runtime
FnMoreGroups == {<<s_microsoft, S_Microsoft_Office, s_15_0>>,
                 <<s_cisco, S_Cisco_WebEx_Meetings, s_dash>>,
                 <<s_cisco, S_Cisco_WebEx_Meetings, s_2_0>>,
                 <<s_adobe, S_Adobe_Reader, s_11_0_1>>,
                 <<s_oracle, S_Java_8_Update_25, s_8_0_250>>}

\* the clean name _match_prepare gives the one name of a catalog (vendor) or
\* of an inventory (publisher)
clean_name(kind, name) ==
    LET prepared ==
            ven_match_prepare(
                DataFrame(CpeCols, <<cpe_row(name, "p", s_dash, <<"P">>, cpe23_reader, "c")>>),
                DataFrame(SccmCols, <<[Publisher0 |-> name, DisplayName0 |-> <<"P">>,
                                       Version0 |-> NaNStr]>>))
    IN IF kind = "vendor" THEN prepared[2].rows[1].ven_cln
       ELSE prepared[1].rows[1].pub0_cln

\* names made of at most MaxNameParts words, stop words and separators
NameParts == {<<"a", "b">>, <<"I", "n", "c">>, <<"C">>, <<" ">>, <<"_">>, <<"-">>, <<".">>}
FnNames == {flatten(s) : s \in SeqsUpTo(NameParts, MaxNameParts) \ {<<>>}}

\* rows of the CVE data: every access complexity and access vector with a
\* score below 4, of 7 and above 7 for one product, two rows of another
cvss_3_9 == <<"3", ".", "9">>
cvss_7_0 == <<"7", ".", "0">>
cvss_7_1 == <<"7", ".", "1">>

FnCveRow(prod, score, cmpl, vect) ==
    [vuln_product |-> prod, cvss_score |-> score,
     cvss_access_complexity |-> cmpl, cvss_access_vector |-> vect]

FnCveRows ==
    {FnCveRow("cpe:/a:adobe:reader:11.0", score, cmpl, vect) :
        score \in {cvss_3_9, cvss_7_0, cvss_7_1},
        cmpl \in Range(cvss_acc_cmpl_categories),
        vect \in Range(cvss_acc_vect_categories)}
    \cup {FnCveRow("cpe:/a:oracle:jre:1.8.0:update_25", cvss_3_9, "HIGH", "LOCAL"),
          FnCveRow("cpe:/a:oracle:jre:1.8.0:update_25", cvss_7_1, "LOW", "NETWORK")}

\* the CVE data of at most MaxCves rows
FnCves == SeqsUpTo(FnCveRows, MaxCves) \ {<<>>}

\* the frames that hold the rows of df in another order, and df
Permuted(df) ==
    {DataFrame(df.cols, [i \in DOMAIN df.rows |-> df.rows[p[i]]]) :
        p \in {q \in [DOMAIN df.rows -> DOMAIN df.rows] :
                  \A i, j \in DOMAIN df.rows : q[i] = q[j] => i = j}}

InitFn ==
    /\ NoDriver
    /\ NoStore
    /\ NoNvd
    /\ NoCpe
    /\ \/ /\ fn_pc = "call_clean_name"
          /\ type_data = "vendor"
          /\ \E kind \in {"vendor", "publisher"}, name \in FnNames : fn_in = <<kind, name>>
       \/ /\ fn_pc = "call_sft_cartesian_product"
          /\ type_data = "software"
          /\ \E G \in SUBSET FnGroups, H \in {{}} \cup {{h} : h \in FnMoreGroups},
                c \in FnSftCatalogs :
                fn_in = <<sorted_tuples(G \cup H), sft_match_prepare_cpe_data(c)>>
       \/ /\ fn_pc = "call_cartesian_product"
          /\ type_data = "vendor"
          /\ \E c \in FnCatalogs, a \in FnInventories : fn_in = ven_match_prepare(c, a)
       \/ /\ fn_pc = "call_replace_dups"
          /\ type_data = "software"
          /\ \E X \in FnFrames(FnSftCols, FnSftRows) : fn_in = <<X, NoFrame>>
       \/ /\ fn_pc = "call_replace_dups_permuted"
          /\ type_data = "software"
          /\ \E X \in FnFrames(FnSftCols, FnSftRows) \ {NoFrame} :
                \E Y \in Permuted(X) : fn_in = <<X, Y>>
       \/ /\ fn_pc = "call_categorize_cvss_data"
          /\ type_data = "software"
          /\ \E df_cve \in FnCves : fn_in = <<df_cve>>
       \/ /\ fn_pc = "call_post_process"
          /\ type_data = "vendor"
          /\ \E A \in FnFrames(FnVenCols, FnVenRows), B \in FnFrames(FnVenCols, FnVenRows) :
                fn_in = <<A, B>>
    /\ fn_out = IF fn_pc = "call_clean_name" THEN <<>> ELSE NoFrame
    /\ NoRun

run_state == <<df_sccm_ar, pc, err, df_prep, df_match, df_match_upd, df_match_lbl,
               df_match_test2, df_match_labelled, predict_arg, table, runs, baseline,
               others>>

\* df = self.replace_dups_by_best_match(fn_in[1])
CallReplaceDups ==
    /\ fn_pc = "call_replace_dups"
    /\ fn_out' = replace_dups_by_best_match(fn_in[1])
    /\ fn_pc' = "ret_replace_dups"
    /\ UNCHANGED <<inputs, label_file, run_state, fn_in>>

\* replace_dups_by_best_match on a frame and on the same rows in another order
CallReplaceDupsPermuted ==
    /\ fn_pc = "call_replace_dups_permuted"
    /\ fn_out' = <<replace_dups_by_best_match(fn_in[1]),
                   replace_dups_by_best_match(fn_in[2])>>
    /\ fn_pc' = "ret_replace_dups_permuted"
    /\ UNCHANGED <<inputs, label_file, run_state, fn_in>>

\* df_sft4_agg = _categorize_cvss_data(self.df_cve) on fn_in[1]
CallCategorizeCvssData ==
    /\ fn_pc = "call_categorize_cvss_data"
    /\ fn_out' = categorize_cvss_data(fn_in[1])
    /\ fn_pc' = "ret_categorize_cvss_data"
    /\ UNCHANGED <<inputs, label_file, run_state, fn_in>>

\* df = ML.post_process_matched_data(fn_in[1], fn_in[2])
CallPostProcess ==
    /\ fn_pc = "call_post_process"
    /\ fn_out' = post_process_matched_data(type_data, fn_in[1], fn_in[2])
    /\ fn_pc' = "ret_post_process"
    /\ UNCHANGED <<inputs, label_file, run_state, fn_in>>

\* df_match = self._cartesian_product(df_arPub, df_cpeVen) on fn_in
CallCartesianProduct ==
    /\ fn_pc = "call_cartesian_product"
    /\ fn_out' = ven_cartesian_product(fn_in[1], fn_in[2])
    /\ fn_pc' = "ret_cartesian_product"
    /\ UNCHANGED <<inputs, label_file, run_state, fn_in>>

\* df_match1 = self._cartesian_product(df_arSft_grp, df_cpeSoft_grp) on fn_in
CallSftCartesianProduct ==
    /\ fn_pc = "call_sft_cartesian_product"
    /\ fn_out' = sft_cartesian_product(fn_in[1], fn_in[2])
    /\ fn_pc' = "ret_sft_cartesian_product"
    /\ UNCHANGED <<inputs, label_file, run_state, fn_in>>

\* _match_prepare on the one name fn_in[2]
CallCleanName ==
    /\ fn_pc = "call_clean_name"
    /\ fn_out' = <<clean_name(fn_in[1], fn_in[2])>>
    /\ fn_pc' = "call_clean_name_again"
    /\ UNCHANGED <<inputs, label_file, run_state, fn_in>>

\* _match_prepare on the clean name it gave
CallCleanNameAgain ==
    /\ fn_pc = "call_clean_name_again"
    /\ fn_out' = Append(fn_out, clean_name(fn_in[1], fn_out[1]))
    /\ fn_pc' = "ret_clean_name"
    /\ UNCHANGED <<inputs, label_file, run_state, fn_in>>

NextFn ==
    \/ CallCleanName
    \/ CallCleanNameAgain
    \/ CallSftCartesianProduct
    \/ CallCartesianProduct
    \/ CallReplaceDups
    \/ CallReplaceDupsPermuted
    \/ CallCategorizeCvssData
    \/ CallPostProcess

SpecFn == InitFn /\ [][NextFn]_vars

-----------------------------------------------------------------------------
(* vulnmine.py: the pipeline driver *)

\* the processing steps, in the order of do_all
Steps == <<"rd_sccm_hosts", "rd_sccm_sft", "rd_cpe", "rd_cve", "match_vendors",
           "match_sft", "upd_hosts_vulns", "output_stats">>

\* the choices of --action; its default is the string 'sched', of which no
\* choice is a substring: it is written as the list of the one word
Choices == Range(Steps) \cup {"all"}
Sched == <<"sched">>

\* gbls.CANCEL_ON_FAILURE
CANCEL_ON_FAILURE == FALSE

\* no function is called on its own
NoHarness ==
    /\ type_data = "vendor"
    /\ fn_in = <<NoFrame, NoFrame>>
    /\ fn_out = NoFrame
    /\ fn_pc = "idle"

\* main() is entered with the parsed arguments
InitDriver ==
    /\ args_action \in {Sched} \cup (SeqsUpTo(Choices, MaxActions) \ {<<>>})
    /\ proc = "main"
    /\ todo = <<>>
    /\ job = "none"
    /\ raised_in = "none"
    /\ days = 0
    /\ NoStore
    /\ NoNvd
    /\ NoCpe
    /\ NoHarness
    /\ NoRun

matchers == <<type_data, clf_loaded, clf, label_file, df_cpe, df_sccm_ar, df_ven_pub,
              pc, err, df_prep, df_match, df_match_upd, df_match_lbl, df_match_test2,
              df_match_labelled, predict_arg, table, runs, baseline,
              fn_in, fn_out, fn_pc>>

outside_driver == <<matchers, store, nvd, cpe>>

\* 'x in args.action'
in_action(x) == x \in Range(args_action)

\* main: init_globals() > 0 or the csv directory is missing: main returns
MainAborts ==
    /\ proc = "main"
    /\ proc' = "returned"
    /\ UNCHANGED <<outside_driver, args_action, todo, job, raised_in, days>>

\* main: the main processing loop is entered
MainDispatch ==
    /\ proc = "main"
    /\ IF in_action("sched")
       THEN proc' = "sched_loop" /\ job' = "scheduled" /\ todo' = <<>>
       ELSE IF in_action("all")
       THEN proc' = "do_all" /\ todo' = Steps /\ UNCHANGED job
       ELSE proc' = "actions" /\ todo' = args_action /\ UNCHANGED job
    /\ UNCHANGED <<outside_driver, args_action, raised_in, days>>

\* schedule.run_pending(): the job is due and run_job calls do_all
RunPending ==
    /\ proc = "sched_loop" /\ job = "scheduled" /\ days < MaxDays
    /\ proc' = "run_job"
    /\ todo' = Steps
    /\ days' = days + 1
    /\ UNCHANGED <<outside_driver, args_action, job, raised_in>>

\* the step called returns
StepReturns ==
    /\ proc \in {"run_job", "do_all", "actions"} /\ todo # <<>>
    /\ todo' = Tail(todo)
    /\ UNCHANGED <<outside_driver, args_action, proc, job, raised_in, days>>

\* the step called raises: catch_exceptions catches what leaves run_job, and
\* nothing catches what leaves do_all or a step called by main
StepRaises ==
    /\ proc \in {"run_job", "do_all", "actions"} /\ todo # <<>>
    /\ raised_in' = Head(todo)
    /\ todo' = <<>>
    /\ IF proc = "run_job"
       THEN /\ proc' = "sched_loop"
            /\ job' = IF CANCEL_ON_FAILURE THEN "cancelled" ELSE job
       ELSE /\ proc' = "uncaught"
            /\ UNCHANGED job
    /\ UNCHANGED <<outside_driver, args_action, days>>

\* every step has returned: run_job returns to the loop, main returns
CallsReturn ==
    /\ proc \in {"run_job", "do_all", "actions"} /\ todo = <<>>
    /\ proc' = IF proc = "run_job" THEN "sched_loop" ELSE "returned"
    /\ UNCHANGED <<outside_driver, args_action, todo, job, raised_in, days>>

NextDriver ==
    \/ MainAborts
    \/ MainDispatch
    \/ RunPending
    \/ StepReturns
    \/ StepRaises
    \/ CallsReturn

SpecDriver == InitDriver /\ [][NextDriver]_vars

-----------------------------------------------------------------------------
(* matchven.py, matchsft.py: get, save and load of the stored table *)

\* the tables a match() can store
StoreTables(st) ==
    IF st = "vendor" THEN VenPubTables \ {ven_init_table}
    ELSE {DataFrame({"vendor_X", "DisplayName0", "Version0", "t_cve_name"},
                    <<[vendor_X |-> s_adobe, DisplayName0 |-> S_Adobe_Reader,
                       Version0 |-> s_11_0, t_cve_name |-> "cpe:/a:adobe:reader:11.0"]>>),
          DataFrame({"vendor_X", "DisplayName0", "Version0", "t_cve_name"},
                    <<[vendor_X |-> s_adobe, DisplayName0 |-> S_Adobe_Reader,
                       Version0 |-> s_11_0, t_cve_name |-> "cpe:/a:adobe:reader:11.0"],
                      [vendor_X |-> s_oracle, DisplayName0 |-> S_Oracle_Database,
                       Version0 |-> s_dash, t_cve_name |-> "cpe:/a:oracle:database"]>>)}

\* DataFrame.copy(): a new object with the values of df
frame_copy(df) == DataFrame(df.cols, df.rows)

\* a to_pickle that writes the first row only
to_pickle_head(df) ==
    [n |-> IF df.rows = <<>> THEN 0 ELSE 1,
     columns |-> df.cols,
     blocks |-> [c \in df.cols |->
                    [i \in 1..(IF df.rows = <<>> THEN 0 ELSE 1) |-> df.rows[i][c]]]]

\* DataFrame.to_pickle: the file holds the columns, each with its values
to_pickle(df) ==
    [n |-> Len(df.rows),
     columns |-> df.cols,
     blocks |-> [c \in df.cols |-> [i \in 1..Len(df.rows) |-> df.rows[i][c]]]]

\* pd.read_pickle: the frame of the columns of the file
read_pickle(file) ==
    DataFrame(file.columns, [i \in 1..file.n |-> [c \in file.columns |-> file.blocks[c][i]]])

\* a get that returns the stored table itself
get_stored(o, st) == [objs |-> o, ref |-> st]

\* get: the objects after the call and the object returned
get(o, st) == [objs |-> [o EXCEPT !["caller"] = frame_copy(o[st])], ref |-> "caller"]

\* what a caller can do to a frame it holds: drop its last row, set a value
\* of its first row, add a column
Changes(df) ==
    {DataFrame(df.cols, SubSeq(df.rows, 1, Len(df.rows) - 1)),
     DataFrame(df.cols, [i \in DOMAIN df.rows |->
                            IF i = 1 THEN [df.rows[i] EXCEPT !.vendor_X = s_sun]
                            ELSE df.rows[i]]),
     DataFrame(df.cols \cup {"note"},
               [i \in DOMAIN df.rows |->
                   [c \in df.cols \cup {"note"} |->
                       IF c = "note" THEN "x" ELSE df.rows[i][c]]])}
    \ {df}

\* MatchVendor() and MatchSoft() are constructed
InitStore ==
    /\ objs = [o \in Stages \cup {"caller"} |->
                  IF o = "caller" THEN NoFrame ELSE init_table(o)]
    /\ got = "none"
    /\ pck = [st \in Stages |-> NoFile]
    /\ st_op = [op |-> "init", stage |-> "none"]
    /\ NoDriver
    /\ NoNvd
    /\ NoCpe
    /\ NoHarness
    /\ NoRun

outside_store == <<matchers, driver, nvd, cpe>>

\* a new matcher of the stage replaces the old one
StNew(st) ==
    /\ objs' = [objs EXCEPT ![st] = init_table(st)]
    /\ st_op' = [op |-> "new", stage |-> st]
    /\ UNCHANGED <<outside_store, got, pck>>

\* match() of the stage completes and stores its table
StMatch(st) ==
    /\ \E t \in StoreTables(st) : objs' = [objs EXCEPT ![st] = t]
    /\ st_op' = [op |-> "match", stage |-> st]
    /\ UNCHANGED <<outside_store, got, pck>>

\* df = matcher.get()
StGet(st) ==
    /\ objs' = get(objs, st).objs
    /\ got' = get(objs, st).ref
    /\ st_op' = [op |-> "get", stage |-> st]
    /\ UNCHANGED <<outside_store, pck>>

\* the caller changes the frame it holds
StChange ==
    /\ got # "none"
    /\ \E c \in Changes(objs[got]) : objs' = [objs EXCEPT ![got] = c]
    /\ st_op' = [op |-> "change", stage |-> "none"]
    /\ UNCHANGED <<outside_store, got, pck>>

\* matcher.save()
StSave(st) ==
    /\ pck' = [pck EXCEPT ![st] = to_pickle(objs[st])]
    /\ st_op' = [op |-> "save", stage |-> st]
    /\ UNCHANGED <<outside_store, objs, got>>

\* matcher.load(): read_pickle raises when there is no file, and the stored
\* table is then the one it was
StLoad(st) ==
    /\ pck[st] # NoFile
    /\ objs' = [objs EXCEPT ![st] = read_pickle(pck[st])]
    /\ st_op' = [op |-> "load", stage |-> st]
    /\ UNCHANGED <<outside_store, got, pck>>

NextStore ==
    \E st \in Stages :
        \/ StNew(st)
        \/ StMatch(st)
        \/ StGet(st)
        \/ StChange
        \/ StSave(st)
        \/ StLoad(st)

SpecStore == InitStore /\ [][NextStore]_vars

-----------------------------------------------------------------------------
(* nvd.py: NvdCve.download_cve *)

\* the indexes of the loop: year my_yr - index
Years == 0..(num_nvd_files - 1)

\* no file of that name
NoText == "no file"

\* the texts NVD publishes as the meta file of a year, and the feed each
\* text describes
MetaTexts == {"meta a", "meta b"}
feed_of(m) == IF m = "meta a" THEN "xml a" ELSE "xml b"

\* the responses to the request of the XML feed described by the meta text m:
\* the request raises RequestException, the content is no zip archive, or it
\* is an archive of no, one or two files
XmlResponses(m) ==
    {[kind |-> "RequestException", members |-> <<>>],
     [kind |-> "not a zip", members |-> <<>>],
     [kind |-> "zip", members |-> <<>>],
     [kind |-> "zip", members |-> <<[name |-> "nvdcve.xml", zipped |-> <<"zip", feed_of(m)>>]>>],
     [kind |-> "zip", members |-> <<[name |-> "nvdcve.xml", zipped |-> <<"zip", feed_of(m)>>],
                                    [name |-> "readme", zipped |-> <<"zip", "text">>]>>]}

\* my_zipfile.open(file_name).read(): the member, decompressed
unzip(member) == member.zipped[2]

\* utils.get_zip on the response resp: (file_name, extracted_file), (None, None)
\* written <<"None", "None">>
get_zip(resp) ==
    IF resp.kind = "RequestException" THEN <<"None", "None">>
    ELSE IF Len(resp.members) = 1
         THEN <<resp.members[1].name, unzip(resp.members[1])>>
         ELSE <<"None", "None">>

\* utils.get_zip raises: zipf.ZipFile of a content that is no archive
get_zip_raises(resp) == resp.kind = "not a zip"

\* download_cve is called on an NVD directory that has, for each year, no
\* file or the meta file and the feed of an earlier download
InitNvd ==
    /\ nvd_pc = "loop"
    /\ nvd_index = 0
    /\ meta_files \in [Years -> MetaTexts \cup {NoText}]
    /\ cve_files = [y \in Years |-> IF meta_files[y] = NoText THEN NoText
                                     ELSE feed_of(meta_files[y])]
    /\ http_log = <<>>
    /\ nvd_runs = 1
    /\ NoDriver
    /\ NoStore
    /\ NoCpe
    /\ NoHarness
    /\ NoRun

outside_nvd == <<matchers, driver, store, cpe>>

\* an iteration of the loop: requests.get(url_meta) raises RequestException
YearMetaRequestFails ==
    /\ nvd_pc = "loop" /\ nvd_index < num_nvd_files
    /\ http_log' = Append(http_log, [url |-> "meta", yr |-> nvd_index,
                                      resp |-> "RequestException"])
    /\ nvd_index' = nvd_index + 1
    /\ UNCHANGED <<outside_nvd, nvd_pc, meta_files, cve_files, nvd_runs>>

\* an iteration of the loop: the meta file exists and has the text fetched
YearMetaUnchanged ==
    /\ nvd_pc = "loop" /\ nvd_index < num_nvd_files
    /\ \E m \in MetaTexts :
          /\ meta_files[nvd_index] # NoText /\ meta_files[nvd_index] = m
          /\ http_log' = Append(http_log, [url |-> "meta", yr |-> nvd_index, resp |-> m])
    /\ nvd_index' = nvd_index + 1
    /\ UNCHANGED <<outside_nvd, nvd_pc, meta_files, cve_files, nvd_runs>>

\* an iteration of the loop: no meta file, or one with another text; the
\* text fetched is stored, then the XML feed is requested
YearMetaChanged ==
    /\ nvd_pc = "loop" /\ nvd_index < num_nvd_files
    /\ \E m \in MetaTexts : \E x \in XmlResponses(m) :
          /\ meta_files[nvd_index] = NoText \/ meta_files[nvd_index] # m
          /\ meta_files' = [meta_files EXCEPT ![nvd_index] = m]
          /\ http_log' = http_log \o
                 <<[url |-> "meta", yr |-> nvd_index, resp |-> m],
                   [url |-> "xml", yr |-> nvd_index, resp |-> x.kind]>>
          /\ IF get_zip_raises(x)
             THEN /\ nvd_pc' = "raised"
                  /\ UNCHANGED <<nvd_index, cve_files>>
             ELSE /\ cve_files' = IF get_zip(x)[1] # "None"
                                  THEN [cve_files EXCEPT ![nvd_index] = get_zip(x)[2]]
                                  ELSE cve_files
                  /\ nvd_index' = nvd_index + 1
                  /\ UNCHANGED nvd_pc
    /\ UNCHANGED <<outside_nvd, nvd_runs>>

\* the loop is over: return None
DownloadReturns ==
    /\ nvd_pc = "loop" /\ nvd_index = num_nvd_files
    /\ nvd_pc' = "done"
    /\ UNCHANGED <<outside_nvd, nvd_index, meta_files, cve_files, http_log, nvd_runs>>

\* rd_cve of a later run of the driver: download_cve is called again on the
\* NVD directory as the call before left it
DownloadAgain ==
    /\ nvd_pc \in {"done", "raised"}
    /\ nvd_runs < MaxNvdRuns
    /\ nvd_pc' = "loop"
    /\ nvd_index' = 0
    /\ http_log' = <<>>
    /\ nvd_runs' = nvd_runs + 1
    /\ UNCHANGED <<outside_nvd, meta_files, cve_files>>

NextNvd ==
    \/ YearMetaRequestFails
    \/ YearMetaUnchanged
    \/ YearMetaChanged
    \/ DownloadReturns
    \/ DownloadAgain

SpecNvd == InitNvd /\ [][NextNvd]_vars

-----------------------------------------------------------------------------
(* nvd.py: NvdCpe.download_cpe *)

\* gbls.cpe_max_age, in days
cpe_max_age == 7

\* the dictionaries NVD publishes
CpeTexts == {"cpe a", "cpe b"}

\* the responses to the request of the CPE dictionary: the request raises
\* RequestException, the content is no zip archive, or it is an archive of
\* no, one or two files
CpeResponses ==
    {[kind |-> "RequestException", members |-> <<>>],
     [kind |-> "not a zip", members |-> <<>>],
     [kind |-> "zip", members |-> <<>>]}
    \cup {[kind |-> "zip", members |-> <<[name |-> "cpe.xml", zipped |-> <<"zip", t>>]>>]
            : t \in CpeTexts}
    \cup {[kind |-> "zip", members |-> <<[name |-> "cpe.xml", zipped |-> <<"zip", t>>],
                                         [name |-> "readme", zipped |-> <<"zip", "text">>]>>]
            : t \in CpeTexts}

\* os.path.isfile(my_cpe)
isfile(file) == file # NoCpeFile

\* a test of the age that also downloads at the age of cpe_max_age days
do_download_from(file) == IF isfile(file) THEN file.age >= cpe_max_age ELSE TRUE

\* download_cpe: do_download, for the local file as it is found
do_download(file) == IF isfile(file) THEN file.age > cpe_max_age ELSE TRUE

\* download_cpe is called on an NVD directory left by earlier calls
InitCpe ==
    /\ cpe_pc = "called"
    /\ my_cpe \in {NoCpeFile}
                  \cup [text : CpeTexts, age : 0..(cpe_max_age + MaxOverAge)]
    /\ cpe_log = <<>>
    /\ cpe_calls = 1
    /\ NoDriver
    /\ NoStore
    /\ NoNvd
    /\ NoHarness
    /\ NoRun

outside_cpe == <<matchers, driver, store, nvd>>

\* download_cpe: the file is there and not too old, return None
CpeKept ==
    /\ cpe_pc = "called"
    /\ ~do_download(my_cpe)
    /\ cpe_pc' = "returned"
    /\ UNCHANGED <<outside_cpe, my_cpe, cpe_log, cpe_calls>>

\* download_cpe: utils.get_zip(gbls.url_cpe), and the file is written when a
\* file name is returned
CpeDownload ==
    /\ cpe_pc = "called"
    /\ do_download(my_cpe)
    /\ \E x \in CpeResponses :
          /\ cpe_log' = Append(cpe_log, x)
          /\ IF get_zip_raises(x)
             THEN /\ cpe_pc' = "raised"
                  /\ UNCHANGED my_cpe
             ELSE /\ cpe_pc' = "returned"
                  /\ my_cpe' = IF get_zip(x)[1] # "None"
                               THEN [text |-> get_zip(x)[2], age |-> 0]
                               ELSE my_cpe
    /\ UNCHANGED <<outside_cpe, cpe_calls>>

\* some days later download_cpe is called again
CpeCalledAgain ==
    /\ cpe_pc \in {"returned", "raised"}
    /\ cpe_calls < MaxCpeCalls
    /\ \E d \in 1..(cpe_max_age + 1) :
          my_cpe' = IF isfile(my_cpe)
                    THEN [my_cpe EXCEPT !.age = my_cpe.age + d]
                    ELSE my_cpe
    /\ cpe_pc' = "called"
    /\ cpe_log' = <<>>
    /\ cpe_calls' = cpe_calls + 1
    /\ UNCHANGED outside_cpe

NextCpe ==
    \/ CpeKept
    \/ CpeDownload
    \/ CpeCalledAgain

SpecCpe == InitCpe /\ [][NextCpe]_vars

-----------------------------------------------------------------------------
(* Properties of the matching stages *)

\* the run has returned from ml_classify
Classified ==
    \/ pc \in {"post", "done"}
    \/ pc = "raised" /\ err.where = "_post_process_matched_data"

\* the columns of the stored table of a stage
table_cols(t) == IF t = "vendor" THEN <<"publisher0", "vendor_X">>
                 ELSE <<"vendor_X", "DisplayName0", "Version0", "t_cve_name">>

\* row r is in the frame df, compared on the columns keys
in_frame(r, df, keys) ==
    \E q \in Range(df.rows) : key_of(q, keys) = key_of(r, keys)

\* C1: after a completed match of either stage, every row of the stored table
\* is the projection of a row with match = 1, classified or labelled.
C1_OnlyPositiveRows ==
    pc = "done" =>
        \A r \in Range(table.rows) :
            \E q \in Range(df_match_test2.rows) \cup Range(df_match_lbl.rows) :
                /\ q.match = 1
                /\ key_of(q, table_cols(type_data)) = key_of(r, table_cols(type_data))

\* C2: after a completed match of either stage, every candidate of the run
\* whose key the labelled source marks with match = 1 is in the stored table.
C2_LabelledPositivesKept ==
    pc = "done" =>
        \A r \in Range(df_match.rows) :
            (\E l \in Range(df_match_lbl.rows) :
                /\ l.match = 1
                /\ key_of(l, key_list(type_data)) = key_of(r, key_list(type_data)))
            => in_frame(r, table, table_cols(type_data))

\* the rows of df_match_upd that are still Unknown, in order
Unknown == SelectSeq(df_match_upd.rows, LAMBDA r : r.match = NaN)

\* C3: once ml_classify has returned, predict was called at most once, with
\* exactly the feature vectors of the rows still Unknown after
\* upd_using_labelled_data, in order; it was not called when no row is Unknown
\* and the classified slice is then empty; no classified row has a labelled
\* key; and every labelled row kept carries a label the file gives its key.
C3_PredictSeesUnknownOnly ==
    Classified =>
        /\ Unknown = <<>> => predict_arg = <<>> /\ df_match_test2.rows = <<>>
        /\ Unknown # <<>> =>
               /\ Len(predict_arg) = 1
               /\ predict_arg[1] =
                      [i \in DOMAIN Unknown |->
                          [j \in DOMAIN feature_list(type_data) |->
                              Unknown[i][feature_list(type_data)[j]]]]
               /\ Len(df_match_test2.rows) = Len(Unknown)
               /\ \A i \in DOMAIN Unknown :
                      key_of(df_match_test2.rows[i], key_list(type_data))
                          = key_of(Unknown[i], key_list(type_data))
        /\ \A r \in Range(df_match_test2.rows) :
               ~in_frame(r, df_match_lbl, key_list(type_data))
        /\ \A r \in Range(df_match_labelled.rows) :
               \E l \in Range(df_match_lbl.rows) :
                   /\ key_of(l, key_list(type_data)) = key_of(r, key_list(type_data))
                   /\ l.match = r.match

\* a run in which ml_classify had labelled rows to keep and Unknown rows to predict
C3_Witness ==
    /\ pc = "post"
    /\ predict_arg # <<>>
    /\ df_match_labelled.rows # <<>>
    /\ df_match_test2.rows # <<>>

\* C4: after a completed MatchVendor.match no two rows of the stored table
\* have the same (publisher0, vendor_X).
C4_VendorKeysUnique ==
    (type_data = "vendor" /\ pc = "done") =>
        \A i, j \in DOMAIN table.rows :
            key_of(table.rows[i], vendor_key_list) = key_of(table.rows[j], vendor_key_list)
                => i = j

\* the inputs of the run yield no candidate
NoCandidates ==
    IF type_data = "vendor"
    THEN empty(ven_cartesian_product(ven_match_prepare(df_cpe, df_sccm_ar)[1],
                                     ven_match_prepare(df_cpe, df_sccm_ar)[2]))
    ELSE empty(sft_cartesian_product(
                   sft_match_prepare_sccm_data(df_sccm_ar, df_ven_pub),
                   sft_match_prepare_cpe_data(df_cpe)))

\* C5: with no candidates and a labelled source without rows, a match of
\* either stage does not raise and, once completed, has stored an empty table.
C5_EmptyRunCompletes ==
    (NoCandidates /\ ~label_file.io_error /\ label_file.rows = <<>>) =>
        /\ pc # "raised"
        /\ pc = "done" => table.rows = <<>>

\* C6: when the label file cannot be read, the step that reads it does not
\* end the run with an exception.
C6_LabelReadErrorIgnored ==
    label_file.io_error =>
        ~(pc = "raised" /\ err.where = "_update_with_labelled_data")

\* C7: when the classifier could not be loaded, ml_classify does not end the
\* run for want of it, and the table of a completed run holds only rows of
\* the labelled data.
C7_RunsWithoutClassifier ==
    ~clf_loaded =>
        /\ ~(pc = "raised" /\ err.where = "ml_classify" /\ err.what = "AttributeError")
        /\ pc = "done" =>
               \A r \in Range(table.rows) :
                   in_frame(r, df_match_lbl, table_cols(type_data))

\* the (vendor_X, DisplayName0, Version0) group of a row
sft_group(r) == <<r.vendor_X, r.DisplayName0, r.Version0>>

\* the rows with match = 1 of the frame handed to replace_dups_by_best_match
fn_positive == {r \in Range(fn_in[1].rows) : r.match = 1}

\* C8: replace_dups_by_best_match returns rows of the input with match = 1
\* only, exactly one for each group of such rows, and that row has the
\* largest fz_uwratio of the group's rows with match = 1.
C8_OneBestRowPerGroup ==
    fn_pc = "ret_replace_dups" =>
        /\ \A r \in Range(fn_out.rows) : r \in fn_positive
        /\ \A p \in fn_positive :
               /\ Cardinality({i \in DOMAIN fn_out.rows :
                                  sft_group(fn_out.rows[i]) = sft_group(p)}) = 1
               /\ \A r \in Range(fn_out.rows) :
                      sft_group(r) = sft_group(p) => r.fz_uwratio >= p.fz_uwratio

\* a group with accepted rows of 90 and 95 and a rejected row: the 95 is returned
C8_Witness ==
    /\ fn_pc = "ret_replace_dups"
    /\ \E p, q \in fn_positive :
          /\ sft_group(p) = sft_group(q)
          /\ p.fz_uwratio = 90 /\ q.fz_uwratio = 95
    /\ Len(fn_out.rows) = 1
    /\ fn_out.rows[1].fz_uwratio = 95

\* C9: replace_dups_by_best_match returns no more rows than it is given, and
\* post_process_matched_data no more than its two frames hold together.
C9_NoMoreRowsThanGiven ==
    /\ fn_pc = "ret_replace_dups" => Len(fn_out.rows) <= Len(fn_in[1].rows)
    /\ fn_pc = "ret_post_process" =>
           Len(fn_out.rows) <= Len(fn_in[1].rows) + Len(fn_in[2].rows)

\* two accepted rows of one group with the same score, of which one is returned
C9_Witness ==
    /\ fn_pc = "ret_replace_dups"
    /\ Len(fn_in[1].rows) = 2
    /\ fn_in[1].rows[1] # fn_in[1].rows[2]
    /\ \A i \in 1..2 : fn_in[1].rows[i].match = 1 /\ fn_in[1].rows[i].fz_uwratio = 95
    /\ Len(fn_out.rows) = 1

keeps_token(v) == \E i \in DOMAIN v.vend_toks :
                     v.vend_toks[i] \notin lst_stop_wds /\ Len(v.vend_toks[i]) > 1

\* the number of rows of df for the vendor v and the publisher p
emitted(df, v, p) ==
    Cardinality({i \in DOMAIN df.rows : /\ df.rows[i].vendor_X = v.vendor_X
                                        /\ df.rows[i].publisher0 = p.publisher0})

stored_publisher(r) == str_lower(str_replace(r.Publisher0, {" "}, "_"))

\* the group of the record r once it is resolved to the vendor
resolved_group(r, vendor) ==
    <<vendor, r.DisplayName0, IF r.Version0 = NaNStr THEN s_dash ELSE r.Version0>>

\* C12: in a software run every link of the vendor table whose publisher is
\* the publisher of an inventory record, as the vendor stage stores it, is
\* applied: the record is in the prepared inventory with the linked vendor.
C12_StoredLinksApplied ==
    (type_data = "software" /\ pc = "cartesian") =>
        \A i \in DOMAIN df_ven_pub.rows, j \in DOMAIN df_sccm_ar.rows :
            stored_publisher(df_sccm_ar.rows[j]) = df_ven_pub.rows[i].publisher0
            => \E k \in DOMAIN df_prep[1] :
                  df_prep[1][k] = resolved_group(df_sccm_ar.rows[j],
                                                 df_ven_pub.rows[i].vendor_X)

\* C13: no step of a match changes a table the caller passed in: the catalog,
\* the inventory and the vendor table keep their columns, rows and values.
C13_CallerTablesUnchanged ==
    [][/\ df_cpe' = df_cpe
       /\ df_sccm_ar' = df_sccm_ar
       /\ df_ven_pub' = df_ven_pub]_vars

\* the features the classifier of a stage was trained with, in order
trained_features(t) ==
    IF t = "vendor"
    THEN <<"fz_ptl_ratio", "fz_ptl_tok_sort_ratio", "fz_ratio", "fz_tok_set_ratio",
           "fz_uwratio", "ven_len", "pu0_len">>
    ELSE <<"fz_ratio", "fz_ptl_ratio", "fz_tok_set_ratio", "fz_ptl_tok_sort_ratio",
           "fz_uwratio", "fz_rel_ratio", "fz_rel_ptl_ratio", "titlX_len",
           "DsplyNm0_len">>

\* C14: when the classifier is called, its matrix has one row per Unknown
\* candidate, in candidate order, whose entries are the candidate's values of
\* the stage's features in the trained order (7 for vendors, 9 for software);
\* the i-th classified row is the i-th Unknown candidate with the i-th
\* prediction as its label, and the labelled rows keep their labels.
C14_MatrixRowsAndLabelsAligned ==
    (Classified /\ predict_arg # <<>>) =>
        LET Xt == predict_arg[1]
            features == trained_features(type_data)
        IN /\ Len(features) = IF type_data = "vendor" THEN 7 ELSE 9
           /\ DOMAIN Xt = DOMAIN Unknown
           /\ \A i \in DOMAIN Xt :
                 /\ DOMAIN Xt[i] = DOMAIN features
                 /\ \A j \in DOMAIN features : Xt[i][j] = Unknown[i][features[j]]
           /\ DOMAIN df_match_test2.rows = DOMAIN Unknown
           /\ \A i \in DOMAIN Unknown :
                 df_match_test2.rows[i] =
                     [Unknown[i] EXCEPT !.match = predict(clf, Xt)[i]]
           /\ df_match_labelled.rows = SelectSeq(df_match_upd.rows, LAMBDA r : r.match # NaN)

\* two candidates were classified, the first Negative and the second Positive
C14_Witness ==
    /\ Classified
    /\ Len(predict_arg) = 1
    /\ Len(Unknown) = 2
    /\ df_match_test2.rows[1].match = 0
    /\ df_match_test2.rows[2].match = 1

\* C15: an exception raised in match_vendors or in match_sft does not end the
\* process: it never leaves main(), whatever the driver was asked to do.
C15_MatchErrorKeepsProcess ==
    raised_in \in {"match_vendors", "match_sft"} => proc # "uncaught"

\* the rows of df of the inventory group g, in order
rows_of_group(df, g) ==
    SelectSeq(df.rows, LAMBDA r : <<r.vendor_X, r.DisplayName0, r.Version0>> = g)

\* the vendor of the group g has no software in the catalog
no_partition(g, df_cpeSoft) == \A i \in DOMAIN df_cpeSoft.rows : df_cpeSoft.rows[i].vendor_X # g[1]

\* C16: the software candidate generator returns; a group whose vendor has no
\* catalog partition has no candidate in the result, and every other group has
\* in the result the candidates the loop body makes for it.
C16_MissingPartitionSkipped ==
    fn_pc = "ret_sft_cartesian_product" =>
        \A i \in DOMAIN fn_in[1] :
            rows_of_group(fn_out, fn_in[1][i]) =
                IF no_partition(fn_in[1][i], fn_in[2]) THEN <<>>
                ELSE sft_group_pairs(fn_in[1][i], fn_in[2])

\* the group of adobe had no partition and the group of oracle, looked at
\* after it, has its candidate in the result
C16_Witness ==
    /\ fn_pc = "ret_sft_cartesian_product"
    /\ Len(fn_in[1]) = 2
    /\ fn_in[1][1][1] = s_adobe /\ no_partition(fn_in[1][1], fn_in[2])
    /\ fn_in[1][2][1] = s_oracle
    /\ Len(fn_out.rows) = 1
    /\ fn_out.rows[1].vendor_X = s_oracle

\* C17: the name normalization of the vendor stage is idempotent: the clean
\* name of a clean name is that clean name, for vendors and for publishers.
C17_CleanNameIdempotent ==
    fn_pc = "ret_clean_name" => fn_out[2] = fn_out[1]

\* a publisher name that lost a stop word and one whose separator was replaced
C17_Witness ==
    /\ fn_pc = "ret_clean_name"
    /\ fn_in \in {<<"publisher", <<"a", "b", " ", "I", "n", "c">>>>,
                   <<"vendor", <<"a", "b", "-", "a", "b">>>>}
    /\ fn_out[1] \in {<<" ", " ", "a", "b">>, <<" ", " ", "a", "b", " ", "a", "b">>}
    /\ fn_out[2] = fn_out[1]

\* C18: a change the caller makes to a table it got changes no stored table:
\* a later get() returns, and a later save() writes, the table stored before
\* the change, for both matchers.
C18_GetReturnsCopy ==
    [][st_op'.op = "change" =>
          \A st \in Stages :
              /\ get(objs', st).objs[get(objs', st).ref] = objs[st]
              /\ to_pickle(objs'[st]) = to_pickle(objs[st])
              /\ pck'[st] = pck[st]]_vars

\* the caller has changed the vendor table it got, which now differs from
\* the stored one
C18_Witness ==
    /\ st_op.op = "change"
    /\ got = "caller"
    /\ Len(objs["vendor"].rows) = 2
    /\ objs["caller"].cols = objs["vendor"].cols
    /\ Len(objs["caller"].rows) = 1

xml_requests(log, y) == {i \in DOMAIN log : log[i].url = "xml" /\ log[i].yr = y}

\* C20: in the iteration of a year whose meta file was fetched: if the stored
\* meta file has the text fetched, no XML feed is requested and the stored
\* files stay as they are; if it is absent or has another text, the text
\* fetched is stored, the XML feed is requested and the feed that text
\* describes is the year's CVE file; and the loop goes on with the next year.
C20_YearHandled ==
    [][(http_log' # http_log /\ http_log'[Len(http_log) + 1].resp \in MetaTexts) =>
          LET y == nvd_index
              fetched == http_log'[Len(http_log) + 1].resp
          IN /\ http_log'[Len(http_log) + 1].yr = y
             /\ nvd_pc' = "loop" /\ nvd_index' = y + 1
             /\ IF meta_files[y] = fetched
                THEN /\ xml_requests(http_log', y) = {}
                     /\ meta_files' = meta_files
                     /\ cve_files' = cve_files
                ELSE /\ meta_files' = [meta_files EXCEPT ![y] = fetched]
                     /\ xml_requests(http_log', y) # {}
                     /\ cve_files' = [cve_files EXCEPT ![y] = feed_of(fetched)]]_vars

\* C21: a download_cpe call requests the dictionary exactly when there is no
\* local file or the local file is older than cpe_max_age days, and then
\* once; without a request the file stays as it is; after a request answered
\* by an archive of one file the local file holds that file, decompressed;
\* after any other answer the local file stays as it is.
C21_CpeFetchedWhenDue ==
    [][(cpe_pc = "called" /\ cpe_pc' # "called") =>
          LET due == my_cpe = NoCpeFile \/ my_cpe.age > cpe_max_age
          IN /\ due <=> Len(cpe_log') = 1
             /\ ~due => cpe_log' = <<>> /\ my_cpe' = my_cpe
             /\ due =>
                   IF cpe_log'[1].kind = "zip" /\ Len(cpe_log'[1].members) = 1
                   THEN /\ cpe_pc' = "returned"
                        /\ my_cpe'.text = cpe_log'[1].members[1].zipped[2]
                   ELSE my_cpe' = my_cpe]_vars

\* a second call was due and has written the dictionary of the archive it
\* was answered with
C21_Witness ==
    /\ cpe_calls = 2
    /\ cpe_pc = "returned"
    /\ Len(cpe_log) = 1
    /\ cpe_log[1].kind = "zip" /\ Len(cpe_log[1].members) = 1
    /\ my_cpe = [text |-> cpe_log[1].members[1].zipped[2], age |-> 0]

\* C22: after a completed MatchSoft.match with a table that has rows, no two
\* rows of the stored table have the same (vendor_X, DisplayName0, Version0):
\* an installed product version is linked to one catalog entry.
C22_OneEntryPerInstalledVersion ==
    (type_data = "software" /\ pc = "done" /\ table.rows # <<>>) =>
        \A i, j \in DOMAIN table.rows :
            sft_group(table.rows[i]) = sft_group(table.rows[j]) => i = j

\* C23: replace_dups_by_best_match returns the same set of rows for a frame
\* and for every frame that holds the same rows in another order.
C23_BestRowOrderIndependent ==
    fn_pc = "ret_replace_dups_permuted" =>
        Range(fn_out[1].rows) = Range(fn_out[2].rows)

\* the release of a catalog entry, the one of the Java runtime normalized
normalized_release(c) ==
    IF c["@name"] = "cpe:/a:oracle:jre:1.8.0:update_25" THEN s_8_0_250 ELSE c.release_X

\* a title with the vendor name removed
without_vendor(title, vendor) == str_replace_sub(str_lower(title), vendor, <<" ">>)

\* the number of rows of df for the inventory group g and the catalog entry c
sft_emitted(df, g, c) ==
    Cardinality({k \in DOMAIN df.rows : /\ sft_group(df.rows[k]) = g
                                        /\ df.rows[k].t_cve_name = c["@name"]})

linked_vendors(rec) ==
    {l.vendor_X : l \in {q \in Range(df_ven_pub.rows) :
                            q.publisher0 = str_lower(rec.Publisher0)}}

\* the candidate r is made of the inventory record rec
of_record(r, rec) ==
    /\ r.DisplayName0 = rec.DisplayName0
    /\ r.Version0 = IF rec.Version0 = NaNStr THEN s_dash ELSE rec.Version0

\* C25: in a software run the preparation and the candidate generator do not
\* raise; every candidate pairs a catalog entry with an inventory record that
\* the vendor table links to the entry's vendor_X; and an inventory record
\* whose publisher has no link has no candidate.
C25_CandidatesShareVendor ==
    type_data = "software" =>
        /\ ~(pc = "raised" /\ err.where \in {"_match_prepare_sccm_data",
                                               "_cartesian_product"})
        /\ pc \in {"update", "classify", "post", "done"} =>
              /\ \A r \in Range(df_match.rows) :
                    /\ \E c \in Range(df_cpe.rows) :
                          c["@name"] = r.t_cve_name /\ c.vendor_X = r.vendor_X
                    /\ \E rec \in Range(df_sccm_ar.rows) :
                          of_record(r, rec) /\ r.vendor_X \in linked_vendors(rec)
              /\ \A rec \in Range(df_sccm_ar.rows) :
                    linked_vendors(rec) = {} =>
                        \A r \in Range(df_match.rows) :
                            of_record(r, rec) =>
                                \E other \in Range(df_sccm_ar.rows) :
                                    of_record(r, other) /\ linked_vendors(other) # {}

\* the inventory has a record of Adobe, which is linked and has candidates,
\* and a record of Oracle Corporation, which has no link and no candidate
C25_Witness ==
    /\ type_data = "software" /\ pc = "update"
    /\ Len(df_sccm_ar.rows) = 2
    /\ linked_vendors(df_sccm_ar.rows[1]) = {s_adobe}
    /\ linked_vendors(df_sccm_ar.rows[2]) = {}
    /\ Len(df_match.rows) = 2
    /\ \A r \in Range(df_match.rows) : r.vendor_X = s_adobe

\* the row r has the values of the candidate q in every column of df_match
same_candidate(r, q) == \A c \in df_match.cols : r[c] = q[c]

\* C26: once the update with the labelled data has returned, every candidate
\* of the cartesian product is in the updated frame with its values
\* unchanged, at most once, and the updated frame has no other row.
C26_CandidatesOnceUnchanged ==
    (pc = "classify" /\ df_match.rows # <<>>) =>
        /\ \A r \in Range(df_match_upd.rows) :
              \E q \in Range(df_match.rows) : same_candidate(r, q)
        /\ \A q \in Range(df_match.rows) :
              Cardinality({i \in DOMAIN df_match_upd.rows :
                              same_candidate(df_match_upd.rows[i], q)}) = 1

\* the vendor stage has stored its table
VenTableStored ==
    /\ type_data = "vendor"
    /\ \/ pc = "done"
       \/ pc = "raised" /\ err.where = "_post_process_matched_data"

\* the key tuples of the labelled-example file are unique
unique_label_keys ==
    \A i, j \in DOMAIN label_file.rows :
        key_of(label_file.rows[i], vendor_key_list)
            = key_of(label_file.rows[j], vendor_key_list) => i = j

\* the pairs of the rows with match = 1 of the labelled-example file, the
\* vendor spelled as the catalog spells it
labelled_positive ==
    {<<l.publisher0, str_lower(str_replace(l.vendor_X, {" "}, "_"))>> :
        l \in {q \in Range(label_file.rows) : q.match = 1}}

\* the pairs of the classified candidates predicted 1
classified_positive ==
    {<<r.publisher0, r.vendor_X>> : r \in {q \in Range(df_match_test2.rows) : q.match = 1}}

\* C27: in a vendor run whose labelled file has unique keys and in which a
\* candidate was classified, the stored table holds, each once, the
\* classified candidates predicted 1 and the pairs of all the rows with
\* match = 1 of the labelled file, in the run's inputs or not, and no other.
C27_VendorTableContents ==
    (VenTableStored /\ unique_label_keys /\ df_match_test2.rows # <<>>) =>
        /\ {key_of(r, vendor_key_list) : r \in Range(table.rows)}
               = classified_positive \cup labelled_positive
        /\ Len(table.rows) = Cardinality(classified_positive \cup labelled_positive)

\* a completed run that classified the candidate of oracle as Positive, found
\* the one of adobe labelled, and stored them with the twenty labelled pairs
\* of names that are neither in the catalog nor in the inventory
C27_Witness ==
    /\ type_data = "vendor" /\ pc = "done"
    /\ unique_label_keys
    /\ classified_positive = {<<s_oracle_corporation, s_oracle>>}
    /\ df_match_labelled.rows # <<>>
    /\ Len(table.rows) = PostSample + 2

\* the meta texts this download_cve has fetched for the year
fetched_meta(y) ==
    {http_log[i].resp : i \in {k \in DOMAIN http_log :
                                  /\ http_log[k].url = "meta" /\ http_log[k].yr = y
                                  /\ http_log[k].resp \in MetaTexts}}

\* C28: a failed download of a feed is made up for by a later run: when a
\* download_cve returns without having requested the feed of a year whose
\* meta text it fetched, the stored meta file being that text, the stored
\* CVE file of the year is the feed that text describes.
C28_FailedFeedRetried ==
    nvd_pc = "done" =>
        \A y \in Years :
            (xml_requests(http_log, y) = {} /\ meta_files[y] \in fetched_meta(y))
                => cve_files[y] = feed_of(meta_files[y])

\* C29: a vendor run on a catalog and an inventory that have rows is not
\* ended by the size of its frames: neither _match_prepare nor
\* _post_process_matched_data raises ValueError, however few vendors,
\* publishers or rows of the final table there are.
C29_SmallVendorRunCompletes ==
    (type_data = "vendor" /\ df_cpe.rows # <<>> /\ df_sccm_ar.rows # <<>>) =>
        ~(/\ pc = "raised"
          /\ err.where \in {"_match_prepare", "_post_process_matched_data"}
          /\ err.what = "ValueError")

\* the CVEs of the product among the CVE data given
cves_of(df_cve, prod) == SelectSeq(df_cve, LAMBDA r : r.vuln_product = prod)

\* the greatest of the values of a column in the order given, least first
greatest(order, values) ==
    order[CHOOSE c \in {k \in DOMAIN order : order[k] \in Range(values)} :
            \A i \in DOMAIN values : \E d \in 1..c : order[d] = values[i]]

\* the highest of a set of scores
highest(scores) == CHOOSE x \in scores : \A y \in scores : y <= x

\* the rule of the criticality, on a score in tenths
criticality(score, cmpl, vect) ==
    IF score > 70 /\ cmpl \in {"LOW", "MEDIUM"}
                  /\ vect \in {"NETWORK", "ADJACENT_NETWORK"} THEN "High"
    ELSE IF score < 40 \/ (cmpl = "HIGH" /\ vect = "LOCAL") THEN "Low"
    ELSE "Medium"

criticality_of_cve(cve) ==
    criticality(to_numeric(cve.cvss_score), cve.cvss_access_complexity,
                cve.cvss_access_vector)

criticality_of_maxima(cves) ==
    criticality(
        highest({to_numeric(cves[i].cvss_score) : i \in DOMAIN cves}),
        greatest(<<"HIGH", "MEDIUM", "LOW">>,
                 [i \in DOMAIN cves |-> cves[i].cvss_access_complexity]),
        greatest(<<"LOCAL", "ADJACENT_NETWORK", "NETWORK">>,
                 [i \in DOMAIN cves |-> cves[i].cvss_access_vector]))

crit_rank(crit) == CHOOSE k \in 1..3 : <<"Low", "Medium", "High">>[k] = crit

\* C30: the criticality data_merge gives a product is the rule (High, else
\* Low, else Medium) applied to the maxima of score, access complexity
\* (HIGH < MEDIUM < LOW) and access vector (LOCAL < ADJACENT_NETWORK <
\* NETWORK), each taken on its own over the CVEs of the product, and it is
\* never lower than the criticality the rule gives one of these CVEs.
C30_CriticalityOfMaxima ==
    fn_pc = "ret_categorize_cvss_data" =>
        \A i \in DOMAIN fn_in[1] :
            LET prod == fn_in[1][i].vuln_product
                cves == cves_of(fn_in[1], prod)
            IN /\ prod \in DOMAIN fn_out
               /\ fn_out[prod].crit_X_cat = criticality_of_maxima(cves)
               /\ crit_rank(fn_out[prod].crit_X_cat)
                      >= crit_rank(criticality_of_cve(fn_in[1][i]))

\* a product of two CVEs, each of them Low, that data_merge has given High:
\* the score comes from one CVE, complexity and vector from the other
C30_Witness ==
    /\ fn_pc = "ret_categorize_cvss_data"
    /\ \E prod \in DOMAIN fn_out :
          /\ Len(cves_of(fn_in[1], prod)) = 2
          /\ \A i \in 1..2 : criticality_of_cve(cves_of(fn_in[1], prod)[i]) = "Low"
          /\ fn_out[prod].cvss_score = 71
          /\ fn_out[prod].cvss_acc_cmpl_cat \in {"LOW", "MEDIUM"}
          /\ fn_out[prod].cvss_acc_vect_cat = "ADJACENT_NETWORK"
          /\ fn_out[prod].crit_X_cat = "High"

=============================================================================
